---- MODULE Spec2Model ----
(***************************************************************************)
(* Model of shira-modules/DynamicConfigs.py: the dynamic configuration     *)
(* layer (DynamicDict, DynamicDataclass, TranslatorService, APIBased,      *)
(* NowUsing, Translator, Settings), the tree <-> mapping serializer        *)
(* (dataclass_to_dict, dict_to_dataclass) and YAMLConfigHandler.           *)
(*                                                                         *)
(* Python values are one-field records [kind |-> payload]:                 *)
(*   "none"  None                    "str"/"num"  scalars                  *)
(*   "path"  pathlib.Path            "dt"         datetime                 *)
(*   "dict"  plain dict              "list"       list                     *)
(*   "DD"    DynamicDict (v = _data) "API"        APIBased (v = _data)     *)
(*   "TS"    TranslatorService       "ref"        object reference         *)
(*   "Settings", "Translator", "LLMSettings", "NowUsing"  dataclasses      *)
(*   "err"   a raised exception (v = its type)                             *)
(* Mappings are functions from key strings to values.                      *)
(***************************************************************************)
EXTENDS Integers, Sequences, FiniteSets, TLC

\* settings: the Settings tree the application holds    disk: the document at
\* the settings path    rec: a DynamicDict    svc: the outcome of the last
\* TranslatorService construction    ret: the last operation, its argument
\* and what it returned or raised    copied: the record c that rec.copy()
\* returned and the keys under which c and rec hold the very same object
VARIABLES settings, disk, rec, svc, ret, copied

vars == <<settings, disk, rec, svc, ret, copied>>

----------------------------------------------------------------------------
(* Values *)

NoneV == [none |-> "None"]
Str(s) == [str |-> s]
Num(s) == [num |-> s]
PathV(p) == [path |-> p]
DateTime(s) == [dt |-> s]
Dict(f) == [dict |-> f]
List(s) == [list |-> s]
DD(f) == [DD |-> f]
Ref(r) == [ref |-> r]
Err(e) == [err |-> e]

\* The kind and the payload of a value; a value of the given kind.
Kind(x) == CHOOSE n \in DOMAIN x : TRUE
Val(x) == x[Kind(x)]
Mk(kind, payload) == [n \in {kind} |-> payload]

\* x with its payload replaced; a dataclass instance with one field replaced.
WithVal(x, payload) == [n \in DOMAIN x |-> payload]
SetField(inst, name, value) ==
    WithVal(inst, [f \in DOMAIN Val(inst) |-> IF f = name THEN value ELSE Val(inst)[f]])

EmptyMap == <<>>

IsErr(x) == Kind(x) = "err"

\* dict[key] = val
Put(f, key, val) == [x \in DOMAIN f \cup {key} |-> IF x = key THEN val ELSE f[x]]

\* del dict[key]
Del(f, key) == [x \in DOMAIN f \ {key} |-> f[x]]

\* dict.update(other): entries of g replace those of f
Update(f, g) == [x \in DOMAIN f \cup DOMAIN g |-> IF x \in DOMAIN g THEN g[x] ELSE f[x]]

\* dict.get(key) with the default None
Get(f, key) == IF key \in DOMAIN f THEN f[key] ELSE NoneV

\* The exception a comprehension over vals propagates, if any element raised.
Raised(vals) == IF \E x \in vals : IsErr(x) THEN CHOOSE x \in vals : IsErr(x) ELSE NoneV

\* A local variable: x is evaluated once and F applied to its value.
Bind(x, F(_)) == CHOOSE r \in {F(v) : v \in {x}} : TRUE

\* Exception propagation: the exception x raised, else F of the value of x.
Try(x, F(_)) == Bind(x, LAMBDA v : IF IsErr(v) THEN v ELSE F(v))

\* The exception one of parts raised, else result.
OrRaised(parts, result) == Bind(Raised(parts), LAMBDA e : IF IsErr(e) THEN e ELSE result)

\* The mapping key a Python value is used as (None is a legal dict key).
KeyOf(x) == IF Kind(x) = "none" THEN "<None>" ELSE Val(x)

----------------------------------------------------------------------------
(* TranslatorService *)

REQUIRED_FIELDS == {"service_name", "key", "request_form", "client_type", "base_url"}

TSFields == REQUIRED_FIELDS \cup {"_extra_fields"}

\* hasattr(self, field) in __post_init__: every required field is a dataclass
\* field with default None, so the attribute exists whatever was passed.
TranslatorService_hasattr(init_args, field) == field \in TSFields

\* Mutation: the kind-specific rule dropped.
OpenAINeedsModel_never(client_type, extra) == FALSE

\* client_type == 'openai' and 'model' not in self._extra_fields
OpenAINeedsModel(client_type, extra) ==
    client_type = Str("openai") /\ "model" \notin DOMAIN extra

\* TranslatorService(**init_args): the generated __init__ (absent fields take
\* their defaults) followed by __post_init__.
TranslatorService_init(init_args) ==
    LET self == [f \in TSFields |->
                    IF f \in DOMAIN init_args THEN init_args[f]
                    ELSE IF f = "_extra_fields" THEN Dict(EmptyMap) ELSE NoneV]
    IN  IF DOMAIN init_args \ TSFields # {} THEN Err("TypeError")
        ELSE IF \E f \in REQUIRED_FIELDS : ~TranslatorService_hasattr(init_args, f)
        THEN Err("ValueError")
        ELSE IF OpenAINeedsModel(self["client_type"], Val(self["_extra_fields"]))
        THEN Err("ValueError")
        ELSE [TS |-> self]

\* Mutation: from_dict keeps only the required fields.
TranslatorService_from_dict_required_only(data) ==
    TranslatorService_init(Put([f \in REQUIRED_FIELDS |-> Get(data, f)],
                               "_extra_fields", Dict(EmptyMap)))

TranslatorService_from_dict(data) ==
    LET required_fields == [f \in REQUIRED_FIELDS |-> Get(data, f)]
        extra_fields == [x \in DOMAIN data \ REQUIRED_FIELDS |-> data[x]]
    IN  TranslatorService_init(Put(required_fields, "_extra_fields", Dict(extra_fields)))

\* result = required fields; result.update(self._extra_fields)
TranslatorService_to_dict(self) ==
    Update([f \in REQUIRED_FIELDS |-> Val(self)[f]], Val(Val(self)["_extra_fields"]))

\* getattr(service, name): a required field, else __getattr__ on _extra_fields
TranslatorService_getattr(self, name) ==
    IF name \in TSFields THEN Val(self)[name]
    ELSE IF name \in DOMAIN Val(Val(self)["_extra_fields"]) THEN Val(Val(self)["_extra_fields"])[name]
    ELSE Err("AttributeError")

TranslatorService_setattr(self, name, value) ==
    IF name \in TSFields
    THEN SetField(self, name, value)
    ELSE SetField(self, "_extra_fields", Dict(Put(Val(Val(self)["_extra_fields"]), name, value)))

----------------------------------------------------------------------------
(* DynamicDict *)

IsServiceTag(value) ==
    /\ Kind(value) = "dict"
    /\ "__type__" \in DOMAIN Val(value)
    /\ Val(value)["__type__"] = Str("TranslatorService")

\* Mutation: a dict is wrapped as it is and a list is left alone, nothing
\* inside either is converted.
DynamicDict_convert_value_shallow(value) ==
    IF Kind(value) = "dict" THEN DD(Val(value)) ELSE value

RECURSIVE DynamicDict_convert_value(_)
DynamicDict_convert_value(value) ==
    IF Kind(value) = "dict"
    THEN IF IsServiceTag(value)
         THEN IF "value" \notin DOMAIN Val(value) THEN Err("KeyError")
              ELSE IF Kind(Val(value)["value"]) # "dict" THEN Err("AttributeError")
              ELSE TranslatorService_from_dict(Val(Val(value)["value"]))
         ELSE Bind([key \in DOMAIN Val(value) |-> DynamicDict_convert_value(Val(value)[key])],
                   LAMBDA data : OrRaised({data[key] : key \in DOMAIN data}, DD(data)))
    ELSE IF Kind(value) = "list"
    THEN Bind([i \in 1..Len(Val(value)) |-> DynamicDict_convert_value(Val(value)[i])],
              LAMBDA items : OrRaised({items[i] : i \in DOMAIN items}, List(items)))
    ELSE value

\* DynamicDict(data): every value goes through _convert_value
DynamicDict_init(data) ==
    Bind([key \in DOMAIN data |-> DynamicDict_convert_value(data[key])],
         LAMBDA conv : OrRaised({conv[key] : key \in DOMAIN conv}, DD(conv)))

\* __setattr__ / __setitem__: a dict becomes DynamicDict(value), all else is
\* stored as given.  Returns the new record, or the exception raised.
DynamicDict_setitem(self, key, value) ==
    IF Kind(value) = "dict"
    THEN Try(DynamicDict_init(Val(value)), LAMBDA w : WithVal(self, Put(Val(self), key, w)))
    ELSE WithVal(self, Put(Val(self), key, value))

DynamicDict_setattr(self, name, value) == DynamicDict_setitem(self, name, value)

DynamicDict_setdefault(self, key, default) ==
    IF key \notin DOMAIN Val(self)
    THEN Try(DynamicDict_convert_value(default),
             LAMBDA w : WithVal(self, Put(Val(self), key, w)))
    ELSE self

\* update(other): self[key] = value for every pair of other, taken in the
\* iteration order `keys` of other; the first exception ends the call with
\* the earlier pairs stored.  [self |-> the record afterwards, raised |-> the
\* exception or None]
RECURSIVE DynamicDict_update(_, _, _)
DynamicDict_update(self, other, keys) ==
    IF keys = <<>> THEN [self |-> self, raised |-> NoneV]
    ELSE Bind(DynamicDict_setitem(self, Head(keys), other[Head(keys)]),
              LAMBDA new : IF IsErr(new) THEN [self |-> self, raised |-> new]
                           ELSE DynamicDict_update(new, other, Tail(keys)))

\* __getitem__: self._data[key]
DynamicDict_getitem(self, key) ==
    IF key \in DOMAIN Val(self) THEN Val(self)[key] ELSE Err("KeyError")

\* __getattr__
DynamicDict_getattr(self, name) ==
    IF name \in DOMAIN Val(self) THEN Val(self)[name] ELSE Err("AttributeError")

\* The names the class DynamicDict itself defines: normal attribute lookup
\* finds them before __getattr__ is asked.
DynamicDictMethods ==
    { "items", "keys", "values", "clear", "copy", "get", "pop", "popitem",
      "setdefault", "update", "to_dict" }

\* A bound method of an object.
Method(name) == [method |-> name]

\* The attribute read self.<name>: normal lookup, then __getattr__.
DynamicDict_attribute(self, name) ==
    IF name \in DynamicDictMethods THEN Method(name)
    ELSE DynamicDict_getattr(self, name)

\* __delattr__: the record afterwards, or the exception raised
DynamicDict_delattr(self, name) ==
    IF name \in DOMAIN Val(self) THEN WithVal(self, Del(Val(self), name))
    ELSE Err("AttributeError")

\* __delitem__: del self._data[key]
DynamicDict_delitem(self, key) ==
    IF key \in DOMAIN Val(self) THEN WithVal(self, Del(Val(self), key))
    ELSE Err("KeyError")

\* __contains__ and __len__
DynamicDict_contains(self, key) == key \in DOMAIN Val(self)
DynamicDict_len(self) == Cardinality(DOMAIN Val(self))

\* get(key, default=None): self._data.get(key, default); a call without
\* the second argument has default = None.
DynamicDict_get(self, key, default) ==
    IF key \in DOMAIN Val(self) THEN Val(self)[key] ELSE default

\* pop(key, default=None): self._data.pop(key, default);
\* [self |-> the record afterwards, val |-> the value returned]
DynamicDict_pop(self, key, default) ==
    IF key \in DOMAIN Val(self)
    THEN [self |-> WithVal(self, Del(Val(self), key)), val |-> Val(self)[key]]
    ELSE [self |-> self, val |-> default]

RECURSIVE DynamicDict_to_dict(_)
DynamicDict_to_dict(self) ==
    Dict([key \in DOMAIN Val(self) |->
            LET value == Val(self)[key]
            IN  IF Kind(value) \in {"DD", "API"} THEN DynamicDict_to_dict(value)
                ELSE IF Kind(value) = "TS"
                THEN Dict("__type__" :> Str("TranslatorService")
                          @@ "value" :> Dict(TranslatorService_to_dict(value)))
                ELSE value])

----------------------------------------------------------------------------
(* APIBased *)

DeepL ==
    "service_name" :> Str("DeepL") @@ "key" :> NoneV
    @@ "request_form" :> Str("placeholder") @@ "client_type" :> Str("rest")
    @@ "base_url" :> Str("https://api-free.deepl.com/v2/translate")
    @@ "headers_template" :> Dict("Authorization" :> Str("DeepL-Auth-Key {api_key}"))
    @@ "data_template" :> Dict("target_lang" :> Str("KO"))

DeepSeek ==
    "service_name" :> Str("DeepSeek") @@ "key" :> NoneV
    @@ "request_form" :> NoneV @@ "client_type" :> Str("openai")
    @@ "base_url" :> Str("https://api.deepseek.com")
    @@ "model" :> Str("deepseek-chat") @@ "temperature" :> Num("1.2")
    @@ "system_prompt" :> Str("Translate following texts to Korean.")
    @@ "headers_template" :> Dict(EmptyMap) @@ "data_template" :> Dict(EmptyMap)

DEFAULT_SERVICES == "DeepL" :> DeepL @@ "DeepSeek" :> DeepSeek

\* Mutation: data, when given, is the whole collection.
APIBased_init_data_only(data) ==
    LET default_data == [n \in DOMAIN DEFAULT_SERVICES |->
                            TranslatorService_from_dict(DEFAULT_SERVICES[n])]
    IN  Try(DynamicDict_init(IF data = EmptyMap THEN default_data ELSE data),
            LAMBDA w : [API |-> Val(w)])

\* APIBased(data): the built-in services, overlaid with data, then wrapped
APIBased_init(data) ==
    LET default_data == [n \in DOMAIN DEFAULT_SERVICES |->
                            TranslatorService_from_dict(DEFAULT_SERVICES[n])]
    IN  Try(DynamicDict_init(Update(default_data, data)), LAMBDA w : [API |-> Val(w)])

\* Mutation: the service is stored under its address.
add_service_by_address(self, service_data) ==
    Try(TranslatorService_from_dict(service_data),
        LAMBDA service :
            DynamicDict_setitem(self, KeyOf(Val(service)["base_url"]), service))

\* add_service(service_data): returns the collection, or the exception raised
add_service(self, service_data) ==
    Try(TranslatorService_from_dict(service_data),
        LAMBDA service :
            DynamicDict_setitem(self, KeyOf(Val(service)["service_name"]), service))

\* Mutation: removing an unknown name passes silently.
remove_service_silent(self, service_name) ==
    WithVal(self, Del(Val(self), service_name))

\* remove_service(service_name)
remove_service(self, service_name) ==
    IF service_name \in DOMAIN Val(self)
    THEN WithVal(self, Del(Val(self), service_name))
    ELSE Err("KeyError")

----------------------------------------------------------------------------
(* DynamicDataclass and its subclasses *)

Fields(cls) ==
    CASE cls = "Settings" -> {"_dynamic_fields", "js_path", "js_scripts_path", "work_dir", "translator"}
      [] cls = "Translator" -> {"_dynamic_fields", "api_based", "local_llm", "now_using"}
      [] cls = "LLMSettings" -> {"_dynamic_fields", "models"}
      [] cls = "NowUsing" -> {"_dynamic_fields", "_service_category", "_service_name", "_parent_translator"}
      [] cls = "TranslatorService" -> TSFields
      [] OTHER -> {}

\* f.type of the declared fields that name a class; every other annotation
\* (Optional[Path], Optional[str], Dict[str, Any]) is no dataclass.
FieldType(cls, name) ==
    CASE cls = "Settings" /\ name = "translator" -> "Translator"
      [] cls = "Translator" /\ name = "api_based" -> "APIBased"
      [] cls = "Translator" /\ name = "local_llm" -> "LLMSettings"
      [] cls = "Translator" /\ name = "now_using" -> "NowUsing"
      [] OTHER -> "Any"

is_dataclass_type(cls) ==
    cls \in {"Settings", "Translator", "LLMSettings", "NowUsing", "TranslatorService"}

is_dataclass(instance) ==
    Kind(instance) \in {"Settings", "Translator", "LLMSettings", "NowUsing", "TS"}

\* The value a declared field or a dynamic field holds after assignment.
Wrapped(value) == IF Kind(value) = "dict" THEN DynamicDict_init(Val(value)) ELSE value

\* Mutation: every name is stored into the side mapping.
DynamicDataclass_setattr_all_dynamic(self, name, value) ==
    Try(Wrapped(value),
        LAMBDA w : SetField(self, "_dynamic_fields",
                            WithVal(Val(self)["_dynamic_fields"],
                                    Put(Val(Val(self)["_dynamic_fields"]), name, w))))

\* DynamicDataclass.__setattr__
DynamicDataclass_setattr(self, name, value) ==
    Try(Wrapped(value),
        LAMBDA w :
            IF name \in DOMAIN Val(self)
            THEN SetField(self, name, w)
            ELSE SetField(self, "_dynamic_fields",
                          WithVal(Val(self)["_dynamic_fields"],
                                  Put(Val(Val(self)["_dynamic_fields"]), name, w))))

\* DynamicDataclass.__getattr__ (after normal attribute lookup)
DynamicDataclass_getattr(self, name) ==
    IF name \in DOMAIN Val(self) THEN Val(self)[name]
    ELSE IF name \in DOMAIN Val(Val(self)["_dynamic_fields"]) THEN Val(Val(self)["_dynamic_fields"])[name]
    ELSE Err("AttributeError")

\* The generated __init__ of a DynamicDataclass subclass: every field is
\* assigned through __setattr__, absent ones from the given defaults.
Construct(cls, init_args, defaults) ==
    IF DOMAIN init_args \ Fields(cls) # {} THEN Err("TypeError")
    ELSE Bind([f \in Fields(cls) |->
                 Wrapped(IF f \in DOMAIN init_args THEN init_args[f] ELSE defaults[f])],
              LAMBDA vals : OrRaised({vals[f] : f \in DOMAIN vals}, Mk(cls, vals)))

LLMSettings_init(init_args) ==
    Construct("LLMSettings", init_args,
              "_dynamic_fields" :> Dict(EmptyMap) @@ "models" :> Dict(EmptyMap))

\* NowUsing(**init_args) with __post_init__: null selectors take the defaults
NowUsing_init(init_args) ==
    Try(Construct("NowUsing", init_args,
                  "_dynamic_fields" :> Dict(EmptyMap)
                  @@ "_service_category" :> Str("api_based")
                  @@ "_service_name" :> Str("DeepSeek")
                  @@ "_parent_translator" :> NoneV),
        LAMBDA self :
            LET c == Val(self)["_service_category"]
                n == Val(self)["_service_name"]
            IN  SetField(SetField(self, "_service_category",
                                  IF c = NoneV THEN Str("api_based") ELSE c),
                         "_service_name", IF n = NoneV THEN Str("DeepSeek") ELSE n))

\* Mutation: to_dict also emits the back-reference.
NowUsing_to_dict_with_parent(self) ==
    Dict("category" :> Val(self)["_service_category"] @@ "name" :> Val(self)["_service_name"]
         @@ "_parent_translator" :> Val(self)["_parent_translator"])

NowUsing_to_dict(self) ==
    Dict("category" :> Val(self)["_service_category"] @@ "name" :> Val(self)["_service_name"])

NowUsingInternal == {"_service_category", "_service_name", "_parent_translator", "_dynamic_fields"}

\* Mutation: an unsupported name is stored as a dynamic field.
NowUsing_setattr_stores(self, name, value) ==
    IF name \in NowUsingInternal THEN DynamicDataclass_setattr(self, name, value)
    ELSE IF name = "category" THEN SetField(self, "_service_category", value)
    ELSE IF name = "name" THEN SetField(self, "_service_name", value)
    ELSE SetField(self, "_dynamic_fields",
                  WithVal(Val(self)["_dynamic_fields"], Put(Val(Val(self)["_dynamic_fields"]), name, value)))

\* NowUsing.__setattr__: the new selector, or the exception raised
NowUsing_setattr(self, name, value) ==
    IF name \in NowUsingInternal THEN DynamicDataclass_setattr(self, name, value)
    ELSE IF name = "category" THEN SetField(self, "_service_category", value)
    ELSE IF name = "name" THEN SetField(self, "_service_name", value)
    ELSE Err("AttributeError")

\* Translator(**init_args) with __post_init__: now_using._parent_translator = self
Translator_init(init_args) ==
    Try(Construct("Translator", init_args,
                  "_dynamic_fields" :> Dict(EmptyMap)
                  @@ "api_based" :> APIBased_init(EmptyMap)
                  @@ "local_llm" :> LLMSettings_init(EmptyMap)
                  @@ "now_using" :> NowUsing_init(EmptyMap)),
        LAMBDA self :
            IF Kind(Val(self)["now_using"]) # "NowUsing" THEN Err("AttributeError")
            ELSE SetField(self, "now_using",
                          SetField(Val(self)["now_using"], "_parent_translator", Ref("self"))))

Settings_init(init_args) ==
    Construct("Settings", init_args,
              "_dynamic_fields" :> Dict(EmptyMap) @@ "js_path" :> NoneV
              @@ "js_scripts_path" :> NoneV @@ "work_dir" :> NoneV
              @@ "translator" :> Translator_init(EmptyMap))

\* getattr(service, name) on whatever the selector resolved to
Object_getattr(service, name) ==
    IF Kind(service) = "TS" THEN TranslatorService_getattr(service, name)
    ELSE IF Kind(service) \in {"DD", "API"} THEN DynamicDict_getattr(service, name)
    ELSE Err("AttributeError")

\* Mutation: the collection's KeyError escapes unconverted.
ResolveApiBased_keyerror(parent, service_name) ==
    DynamicDict_getitem(Val(parent)["api_based"], KeyOf(service_name))

\* Mutation: the descriptor taken from the built-in defaults, not from the
\* parent's live collection.
ResolveApiBased_builtin(parent, service_name) ==
    IF KeyOf(service_name) \in DOMAIN DEFAULT_SERVICES
    THEN TranslatorService_from_dict(DEFAULT_SERVICES[KeyOf(service_name)])
    ELSE Err("ValueError")

\* The api_based branch of NowUsing.__getattr__: the descriptor looked up in
\* the parent's collection, KeyError turned into ValueError.
ResolveApiBased(parent, service_name) ==
    Bind(DynamicDict_getitem(Val(parent)["api_based"], KeyOf(service_name)),
         LAMBDA service : IF IsErr(service) THEN Err("ValueError") ELSE service)

\* The local_llm branch: models.get(name), None meaning not found.
ResolveLocalLLM(parent, service_name) ==
    Bind(Get(Val(Val(Val(parent)["local_llm"])["models"]), KeyOf(service_name)),
         LAMBDA service : IF service = NoneV THEN Err("ValueError") ELSE service)

\* A second Translator object of the process, made by Translator().
OtherTranslator == Translator_init(EmptyMap)

\* The object self._parent_translator refers to, for a selector held by the
\* Translator `owner`: that Translator itself, or the second one.
Deref(parent, owner) == IF parent = Ref("self") THEN owner ELSE OtherTranslator

\* NowUsing.__getattr__(name) for a selector held by the Translator `owner`
NowUsing_getattr(self, owner, name) ==
    LET category == Val(self)["_service_category"]
        service_name == Val(self)["_service_name"]
        parent == Val(self)["_parent_translator"]
    IN  IF name \in NowUsingInternal THEN Val(self)[name]
        ELSE IF category = NoneV \/ service_name = NoneV THEN Err("ValueError")
        ELSE IF category \notin {Str("api_based"), Str("local_llm")} THEN Err("ValueError")
        ELSE IF parent = NoneV THEN Err("ValueError")
        ELSE Try(IF category = Str("api_based")
                 THEN ResolveApiBased(Deref(parent, owner), service_name)
                 ELSE ResolveLocalLLM(Deref(parent, owner), service_name),
                 LAMBDA service : Object_getattr(service, name))

----------------------------------------------------------------------------
(* pathlib.Path *)

\* The working directory of the process.
Cwd == "/home/app"

\* The relative path strings of the model; every other path string is absolute.
RelPaths == {"scripts"}

\* Path.absolute().as_posix()
AbsolutePosix(p) == IF p \in RelPaths THEN Cwd \o "/" \o p ELSE p

----------------------------------------------------------------------------
(* Serializer: tree <-> plain mapping *)

TaggedService(value) ==
    Dict("__type__" :> Str("TranslatorService")
         @@ "value" :> Dict(TranslatorService_to_dict(value)))

TaggedPath(value) ==
    Dict("__type__" :> Str("Path") @@ "value" :> Str(AbsolutePosix(Val(value))))

RECURSIVE dataclass_to_dict(_)
dataclass_to_dict(instance) ==
    IF ~is_dataclass(instance)
    THEN IF Kind(instance) \in {"DD", "API"} THEN DynamicDict_to_dict(instance)
         ELSE instance
    ELSE LET names == DOMAIN Val(instance) \ {"_parent_translator", "_dynamic_fields"}
             declared == [name \in names |->
                 LET value == Val(instance)[name]
                 IN  IF Kind(value) = "NowUsing" THEN NowUsing_to_dict(value)
                     ELSE IF Kind(value) \in {"DD", "API"} THEN dataclass_to_dict(value)
                     ELSE IF Kind(value) = "dict"
                     THEN Dict([key \in DOMAIN Val(value) |-> dataclass_to_dict(Val(value)[key])])
                     ELSE IF Kind(value) = "TS" THEN TaggedService(value)
                     ELSE IF is_dataclass(value) THEN dataclass_to_dict(value)
                     ELSE IF Kind(value) = "path" THEN TaggedPath(value)
                     ELSE value]
             dyn == IF "_dynamic_fields" \in DOMAIN Val(instance)
                    THEN Val(Val(instance)["_dynamic_fields"]) ELSE EmptyMap
             dynamic == [key \in DOMAIN dyn \ {"_parent_translator"} |->
                            dataclass_to_dict(dyn[key])]
         IN  Dict(Update(declared, dynamic))

\* Path(value["value"])
Path_of(value) == IF Kind(value) = "str" THEN PathV(Val(value)) ELSE Err("TypeError")

\* The class constructors dict_to_dataclass calls as cls(**init_args).
New(cls, init_args) ==
    CASE cls = "Settings" -> Settings_init(init_args)
      [] cls = "Translator" -> Translator_init(init_args)
      [] cls = "LLMSettings" -> LLMSettings_init(init_args)
      [] cls = "NowUsing" -> NowUsing_init(init_args)
      [] cls = "TranslatorService" -> TranslatorService_init(init_args)
      [] OTHER -> Err("TypeError")

\* setattr(instance, key, value) for the stashed dynamic fields
Instance_setattr(instance, key, value) ==
    IF Kind(instance) = "NowUsing" THEN NowUsing_setattr(instance, key, value)
    ELSE IF Kind(instance) = "TS" THEN TranslatorService_setattr(instance, key, value)
    ELSE DynamicDataclass_setattr(instance, key, value)

RECURSIVE SetAll(_, _, _)
SetAll(instance, dynamic_fields, keys) ==
    IF keys = {} \/ IsErr(instance) THEN instance
    ELSE LET key == CHOOSE x \in keys : TRUE
         IN  SetAll(Instance_setattr(instance, key, dynamic_fields[key]),
                    dynamic_fields, keys \ {key})

RECURSIVE dict_to_dataclass(_, _)
dict_to_dataclass(data, cls) ==
    IF ~is_dataclass_type(cls) THEN data
    ELSE IF Kind(data) # "dict" THEN Err("AttributeError")
    ELSE
    LET declared == DOMAIN Val(data) \cap Fields(cls)
        \* the NowUsing branch maps a dict value's category/name to the
        \* internal fields and drops the key itself
        selector == {key \in declared : cls = "NowUsing" /\ Kind(Val(data)[key]) = "dict"}
        fromsel == [f \in {g \in {"category", "name"} :
                            \E key \in selector : g \in DOMAIN Val(Val(data)[key])} |->
                        LET key == CHOOSE x \in selector : f \in DOMAIN Val(Val(data)[x])
                        IN  Val(Val(data)[key])[f]]
        dynamic_fields == [key \in DOMAIN Val(data) \ Fields(cls) |-> Val(data)[key]]
    IN  Bind([key \in declared \ selector |->
            LET value == Val(data)[key]
            IN  IF Kind(value) # "dict" THEN value
                ELSE IF "__type__" \in DOMAIN Val(value)
                THEN IF Val(value)["__type__"] = Str("TranslatorService")
                     THEN IF "value" \in DOMAIN Val(value) /\ Kind(Val(value)["value"]) = "dict"
                          THEN TranslatorService_from_dict(Val(Val(value)["value"]))
                          ELSE Err("KeyError")
                     ELSE IF "value" \notin DOMAIN Val(value) THEN Err("KeyError")
                     ELSE IF Val(value)["__type__"] = Str("Path")
                     THEN Path_of(Val(value)["value"])
                     ELSE Val(value)["value"]
                ELSE IF FieldType(cls, key) = "APIBased" THEN APIBased_init(Val(value))
                ELSE dict_to_dataclass(value, FieldType(cls, key))],
          LAMBDA plain :
            OrRaised({plain[key] : key \in DOMAIN plain},
                SetAll(New(cls, Update(plain,
                                   [f \in {"_service_" \o g : g \in DOMAIN fromsel} |->
                                       IF f = "_service_category" THEN fromsel["category"]
                                       ELSE fromsel["name"]])),
                       dynamic_fields, DOMAIN dynamic_fields)))

----------------------------------------------------------------------------
(* The YAML document on disk *)

\* A document is the set of its leaves <<path, node>>: path is the sequence
\* of mapping keys [d |-> key] and sequence positions [i |-> n] leading to the
\* node; a node is a scalar, an empty collection, or a node with a tag of its
\* own (what the Dumper's representers emit for objects).
Key(s) == [d |-> s]
Idx(n) == [i |-> n]
EmptyMapNode == [emptymap |-> "{}"]
EmptySeqNode == [emptyseq |-> "[]"]
TagNode(t) == [tag |-> t]
SyntaxError == [syntax |-> "unparsable"]

Scalars == {"none", "str", "num"}

\* The tag yaml.dump gives an object that is no plain scalar or collection:
\* the registered representers for Path, datetime and TranslatorService, the
\* Dumper's python/object for everything else.
YamlTag(x) ==
    CASE Kind(x) = "path" -> "!Path"
      [] Kind(x) = "dt" -> "!datetime"
      [] Kind(x) = "TS" -> "!TranslatorService"
      [] OTHER -> "!!python/object"

RECURSIVE yaml_represent(_, _)
yaml_represent(path, x) ==
    IF Kind(x) = "dict"
    THEN IF DOMAIN Val(x) = {} THEN {<<path, EmptyMapNode>>}
         ELSE UNION {yaml_represent(Append(path, Key(key)), Val(x)[key]) : key \in DOMAIN Val(x)}
    ELSE IF Kind(x) = "list"
    THEN IF Len(Val(x)) = 0 THEN {<<path, EmptySeqNode>>}
         ELSE UNION {yaml_represent(Append(path, Idx(n)), Val(x)[n]) : n \in 1..Len(Val(x))}
    ELSE IF Kind(x) \in Scalars THEN {<<path, x>>}
    ELSE {<<path, TagNode(YamlTag(x))>>}

\* yaml.dump(data, f, allow_unicode=True, sort_keys=False, default_flow_style=False)
yaml_dump(data) == yaml_represent(<<>>, data)

IsPrefix(p, q) == Len(p) <= Len(q) /\ SubSeq(q, 1, Len(p)) = p

RECURSIVE yaml_construct(_, _)
yaml_construct(doc, path) ==
    LET under == {e \in doc : IsPrefix(path, e[1])}
        here == {e \in under : e[1] = path}
    IN  IF here # {}
        THEN LET node == (CHOOSE e \in here : TRUE)[2]
             IN  IF Kind(node) = "emptymap" THEN Dict(EmptyMap)
                 ELSE IF Kind(node) = "emptyseq" THEN List(<<>>)
                 ELSE IF Kind(node) \in Scalars THEN node
                 ELSE Err("YAMLError")
        ELSE LET steps == {e[1][Len(path) + 1] : e \in under}
                 keys == {s.d : s \in {t \in steps : DOMAIN t = {"d"}}}
                 n == Cardinality({t \in steps : DOMAIN t = {"i"}})
             IN  IF n = 0
                 THEN Bind([key \in keys |-> yaml_construct(doc, Append(path, Key(key)))],
                           LAMBDA m : OrRaised({m[key] : key \in DOMAIN m}, Dict(m)))
                 ELSE Bind([j \in 1..n |-> yaml_construct(doc, Append(path, Idx(j)))],
                           LAMBDA l : OrRaised({l[j] : j \in DOMAIN l}, List(l)))

\* Mutation: a loader that yields an empty document where it cannot parse.
yaml_safe_load_lenient(doc) ==
    IF doc = {} \/ \E e \in doc : Kind(e[2]) \in {"tag", "syntax"} THEN NoneV
    ELSE yaml_construct(doc, <<>>)

\* yaml.safe_load(f): None for an empty document; the SafeLoader knows none of
\* the tags above and fails on them, as it does on unparsable text.
yaml_safe_load(doc) ==
    IF doc = {} THEN NoneV
    ELSE IF \E e \in doc : Kind(e[2]) \in {"tag", "syntax"} THEN Err("YAMLError")
    ELSE yaml_construct(doc, <<>>)

\* Mutation: only a document that loads as None counts as empty.
Falsy_none_only(x) == Kind(x) = "none"

\* Python truthiness of a loaded document
Falsy(x) ==
    \/ Kind(x) = "none"
    \/ Kind(x) = "dict" /\ DOMAIN Val(x) = {}
    \/ Kind(x) = "list" /\ Len(Val(x)) = 0
    \/ x = Str("")
    \/ x = Num("0")

----------------------------------------------------------------------------
(* YAMLConfigHandler *)

NoFile == [nofile |-> {}]
File(doc) == [file |-> doc]
\* A file that exists and that open(settings_path, 'r') may not read.
Unreadable == [unreadable |-> {}]

get_default_settings ==
    LET default_now_using ==
            NowUsing_setattr(
                NowUsing_setattr(NowUsing_init(EmptyMap), "_service_name", Str("DeepSeek")),
                "_service_category", Str("api_based"))
        translator == Translator_init("api_based" :> APIBased_init(EmptyMap)
                                      @@ "local_llm" :> LLMSettings_init(EmptyMap)
                                      @@ "now_using" :> default_now_using)
        tree == Settings_init("js_path" :> NoneV @@ "js_scripts_path" :> NoneV
                              @@ "work_dir" :> NoneV @@ "translator" :> translator)
    IN  dataclass_to_dict(tree)

\* save_settings(settings_path, settings): the file written
save_settings(tree) == File(yaml_dump(dataclass_to_dict(tree)))

\* Mutation: the missing-file branch returns the defaults without writing them.
load_settings_no_write(on_disk, settings_class) ==
    IF Kind(on_disk) = "nofile"
    THEN [disk |-> on_disk, val |-> dict_to_dataclass(get_default_settings, settings_class)]
    ELSE [disk |-> on_disk, val |-> dict_to_dataclass(yaml_safe_load(Val(on_disk)), settings_class)]

\* Mutation: the except clause lets the exception through as it is.
Wrap_reraise(e) == e

\* except Exception as e: raise ValueError(f"Error loading settings: {str(e)}")
Wrap(e) == Err("ValueError")

\* load_settings(settings_path, settings_class) on the file `on_disk`:
\* [disk |-> the file afterwards, val |-> the tree returned or the error raised]
\* Mutation: a document that decodes is written back in canonical form.
load_settings_rewrite(on_disk, settings_class) ==
    IF Kind(on_disk) = "nofile"
    THEN [disk |-> File(yaml_dump(get_default_settings)),
          val |-> dict_to_dataclass(get_default_settings, settings_class)]
    ELSE IF Kind(on_disk) = "unreadable"
    THEN [disk |-> on_disk, val |-> Wrap(Err("PermissionError"))]
    ELSE Bind(yaml_safe_load(Val(on_disk)),
              LAMBDA loaded :
                IF IsErr(loaded) THEN [disk |-> on_disk, val |-> Wrap(loaded)]
                ELSE Bind(dict_to_dataclass(IF Falsy(loaded) THEN get_default_settings
                                            ELSE loaded, settings_class),
                          LAMBDA tree :
                            IF IsErr(tree) THEN [disk |-> on_disk, val |-> Wrap(tree)]
                            ELSE [disk |-> save_settings(tree), val |-> tree]))

load_settings(on_disk, settings_class) ==
    IF Kind(on_disk) = "nofile"
    THEN Bind(get_default_settings,
              LAMBDA default_settings :
                [disk |-> File(yaml_dump(default_settings)),
                 val |-> Bind(dict_to_dataclass(default_settings, settings_class),
                              LAMBDA tree : IF IsErr(tree) THEN Wrap(tree) ELSE tree)])
    ELSE IF Kind(on_disk) = "unreadable"
    THEN [disk |-> on_disk, val |-> Wrap(Err("PermissionError"))]
    ELSE Bind(yaml_safe_load(Val(on_disk)),
              LAMBDA loaded :
                IF IsErr(loaded) THEN [disk |-> on_disk, val |-> Wrap(loaded)]
                ELSE IF Falsy(loaded)
                THEN Bind(dict_to_dataclass(get_default_settings, settings_class),
                          LAMBDA tree :
                            IF IsErr(tree) THEN [disk |-> on_disk, val |-> Wrap(tree)]
                            ELSE [disk |-> save_settings(tree), val |-> tree])
                ELSE [disk |-> on_disk,
                      val |-> Bind(dict_to_dataclass(loaded, settings_class),
                                   LAMBDA tree : IF IsErr(tree) THEN Wrap(tree) ELSE tree)])

----------------------------------------------------------------------------
(* The state machine *)

Done(op, arg, val) == [op |-> op, arg |-> arg, val |-> val]

\* What a call that returns nothing returns, or the exception it raised.
Outcome(x) == IF IsErr(x) THEN x ELSE NoneV

\* The state a failed call leaves: the object as it was.
Kept(old, new) == IF IsErr(new) THEN old ELSE new

TranslatorOf(tree) == Val(tree)["translator"]
ApiBasedOf(tree) == Val(TranslatorOf(tree))["api_based"]
NowUsingOf(tree) == Val(TranslatorOf(tree))["now_using"]
ModelsOf(tree) == Val(Val(TranslatorOf(tree))["local_llm"])["models"]

\* tree with settings.translator.<field> replaced
WithTranslatorField(tree, field, value) ==
    SetField(tree, "translator", SetField(TranslatorOf(tree), field, value))

\* A user-defined REST service with one extra (non-required) field.
FooData ==
    "service_name" :> Str("Foo") @@ "key" :> Str("secret")
    @@ "request_form" :> Str("json") @@ "client_type" :> Str("rest")
    @@ "base_url" :> Str("X") @@ "region" :> Str("eu")

\* An 'openai' service without the 'model' extra field.
BarData ==
    "service_name" :> Str("Bar") @@ "key" :> NoneV
    @@ "request_form" :> NoneV @@ "client_type" :> Str("openai")
    @@ "base_url" :> Str("Z")

ServiceData == {FooData, BarData}
ServiceNames == {"DeepL", "Foo", "Unknown"}
Categories == {Str("api_based"), Str("local_llm"), Str("cloud"), NoneV}
SelectorNames == {Str("DeepL"), Str("Foo"), NoneV}
ForwardedAttrs == {"base_url", "model", "region"}
AssignedAttrs == {"base_url", "model", "_service_name", "_dynamic_fields"}
AssignedValues == {Str("cached")}
LocalModels == {Dict("base_url" :> Str("L"))}

Init ==
    /\ settings = Settings_init(EmptyMap)
    /\ disk = NoFile
    /\ rec = DD(EmptyMap)
    /\ svc = NoneV
    /\ ret = Done("init", NoneV, NoneV)
    /\ copied = [c |-> NoneV, same |-> {}]

\* settings.translator.api_based.add_service(data)
AddService ==
    \E data \in ServiceData :
        \E new \in {add_service(ApiBasedOf(settings), data)} :
            /\ settings' = WithTranslatorField(settings, "api_based",
                                               Kept(ApiBasedOf(settings), new))
            /\ ret' = Done("add_service", Dict(data), Outcome(new))
            /\ UNCHANGED <<disk, rec, svc, copied>>

\* settings.translator.api_based.remove_service(name)
RemoveService ==
    \E name \in ServiceNames :
        \E new \in {remove_service(ApiBasedOf(settings), name)} :
            /\ settings' = WithTranslatorField(settings, "api_based",
                                               Kept(ApiBasedOf(settings), new))
            /\ ret' = Done("remove_service", name, Outcome(new))
            /\ UNCHANGED <<disk, rec, svc, copied>>

\* settings.translator.api_based[name]
LookupService ==
    \E name \in ServiceNames :
        /\ ret' = Done("getitem", name, DynamicDict_getitem(ApiBasedOf(settings), name))
        /\ UNCHANGED <<settings, disk, rec, svc, copied>>

\* settings.translator.api_based[name].base_url = value
SetServiceField ==
    \E name \in DOMAIN Val(ApiBasedOf(settings)) \cap ServiceNames, value \in {Str("X"), Str("Y")} :
        LET api == ApiBasedOf(settings)
            service == TranslatorService_setattr(Val(api)[name], "base_url", value)
        IN  /\ settings' = WithTranslatorField(settings, "api_based",
                                               WithVal(api, Put(Val(api), name, service)))
            /\ ret' = Done("service_setattr", name, NoneV)
            /\ UNCHANGED <<disk, rec, svc, copied>>

\* settings.translator.local_llm.models[name] = value
SetModel ==
    \E value \in LocalModels :
        \E new \in {DynamicDict_setitem(ModelsOf(settings), "Foo", value)} :
            /\ settings' = WithTranslatorField(settings, "local_llm",
                                SetField(Val(TranslatorOf(settings))["local_llm"], "models", new))
            /\ ret' = Done("models_setitem", "Foo", NoneV)
            /\ UNCHANGED <<disk, rec, svc, copied>>

\* settings.translator.now_using.<name> = value
NowUsingAssign(name, value) ==
    \E new \in {NowUsing_setattr(NowUsingOf(settings), name, value)} :
        /\ settings' = WithTranslatorField(settings, "now_using",
                                           Kept(NowUsingOf(settings), new))
        /\ ret' = Done("now_using_setattr", name, Outcome(new))
        /\ UNCHANGED <<disk, rec, svc, copied>>

SetCategory == \E value \in Categories : NowUsingAssign("category", value)

SetName == \E value \in SelectorNames : NowUsingAssign("name", value)

SetOtherAttr ==
    \E name \in AssignedAttrs :
        \E value \in IF name = "_dynamic_fields" THEN {Dict("base_url" :> Str("cached"))}
                     ELSE AssignedValues :
            NowUsingAssign(name, value)

\* settings.translator.now_using = NowUsing(): a selector put in place by
\* attribute assignment, which runs no __post_init__ of the Translator
ReplaceNowUsing ==
    /\ settings' = SetField(settings, "translator",
                        DynamicDataclass_setattr(TranslatorOf(settings), "now_using",
                                                 NowUsing_init(EmptyMap)))
    /\ ret' = Done("translator_setattr", "now_using", NoneV)
    /\ UNCHANGED <<disk, rec, svc, copied>>

\* settings.translator.now_using.<name>
ReadNowUsing ==
    \E name \in ForwardedAttrs :
        /\ ret' = Done("now_using_getattr", name,
                       NowUsing_getattr(NowUsingOf(settings), TranslatorOf(settings), name))
        /\ UNCHANGED <<settings, disk, rec, svc, copied>>

NextSelector ==
    \/ AddService
    \/ RemoveService
    \/ LookupService
    \/ SetServiceField
    \/ SetModel
    \/ SetCategory
    \/ SetName
    \/ SetOtherAttr
    \/ ReplaceNowUsing
    \/ ReadNowUsing

\* The selection indirection and the service collection it resolves against.
SpecSelector == Init /\ [][NextSelector]_vars

----------------------------------------------------------------------------
(* Claims about the selection indirection (SpecSelector) *)

Category(tree) == Val(NowUsingOf(tree))["_service_category"]
SelectedName(tree) == Val(NowUsingOf(tree))["_service_name"]

\* The collection now_using.category selects, as a mapping from names.
SelectedCollection(tree) ==
    IF Category(tree) = Str("api_based") THEN Val(ApiBasedOf(tree)) ELSE Val(ModelsOf(tree))

ParentUnset(tree) == Val(NowUsingOf(tree))["_parent_translator"] = NoneV
BadCategory(tree) == Category(tree) \notin {Str("api_based"), Str("local_llm")}
NoEntry(tree) ==
    /\ ~BadCategory(tree)
    /\ KeyOf(SelectedName(tree)) \notin DOMAIN SelectedCollection(tree)

Resolvable(tree) == ~ParentUnset(tree) /\ ~BadCategory(tree) /\ ~NoEntry(tree)

C7_ResolutionFailure ==
    (/\ ret.op = "now_using_getattr"
     /\ (ParentUnset(settings) \/ BadCategory(settings) \/ NoEntry(settings))) =>
        ret.val = Err("ValueError")

\* C7 witness: the selected built-in service was removed, and the read fails.
C7_Witness ==
    /\ ret.op = "now_using_getattr"
    /\ ret.val = Err("ValueError")
    /\ ~ParentUnset(settings)
    /\ Category(settings) = Str("api_based")
    /\ SelectedName(settings) = Str("DeepL")
    /\ "DeepL" \notin DOMAIN Val(ApiBasedOf(settings))

\* C8: remove_service(n) without an entry n raises KeyError and leaves the
\* collection as it was; with an entry n it removes exactly that entry, keeps
\* every other entry, and a lookup of n then raises KeyError.
C8_ServiceRemoval ==
    [][ret'.op = "remove_service" =>
        LET before == Val(ApiBasedOf(settings))
            after == Val(ApiBasedOf(settings'))
            n == ret'.arg
        IN  IF n \notin DOMAIN before
            THEN ret'.val = Err("KeyError") /\ after = before
            ELSE /\ ret'.val = NoneV
                 /\ Cardinality(DOMAIN after) = Cardinality(DOMAIN before) - 1
                 /\ DOMAIN after = DOMAIN before \ {n}
                 /\ \A m \in DOMAIN after : after[m] = before[m]
                 /\ DynamicDict_getitem(ApiBasedOf(settings'), n) = Err("KeyError")]_vars

\* C8 witness: a removal that succeeded.
C8_Witness ==
    /\ ret.op = "remove_service"
    /\ ret.val = NoneV
    /\ ret.arg \notin DOMAIN Val(ApiBasedOf(settings))

\* C10 as stated: assigning any attribute other than category and name fails
\* with AttributeError and leaves the selector unchanged.
C10_Original ==
    [][(ret'.op = "now_using_setattr" /\ ret'.arg \notin {"category", "name"}) =>
        (ret'.val = Err("AttributeError") /\ NowUsingOf(settings') = NowUsingOf(settings))]_vars

\* C10 amended: assigning any attribute other than category, name and the
\* four internal fields fails with AttributeError and leaves the selector
\* unchanged; a read never changes the selector; assigning category or name
\* changes that one field only.
C10_ImmutableSelector ==
    [][/\ (ret'.op = "now_using_setattr"
           /\ ret'.arg \notin {"category", "name"} \cup NowUsingInternal) =>
            (ret'.val = Err("AttributeError")
             /\ NowUsingOf(settings') = NowUsingOf(settings))
       /\ ret'.op = "now_using_getattr" => settings' = settings
       /\ (ret'.op = "now_using_setattr" /\ ret'.arg \in {"category", "name"}) =>
            \A f \in NowUsingInternal \ {"_service_" \o ret'.arg} :
                Val(NowUsingOf(settings'))[f] = Val(NowUsingOf(settings))[f]]_vars

\* C10 witness: an assignment of base_url was refused.
C10_Witness ==
    /\ ret.op = "now_using_setattr"
    /\ ret.arg = "base_url"
    /\ ret.val = Err("AttributeError")

----------------------------------------------------------------------------
(* The serializer and the persistence gateway *)

PathFields == {"js_path", "js_scripts_path", "work_dir"}
PathValues == {NoneV, PathV("/opt/js"), PathV("scripts")}
DynamicValues ==
    { Str("dark"),
      DateTime("2024-01-01T00:00:00"),
      Dict("font" :> Dict("size" :> Num("12"))),
      TranslatorService_from_dict(FooData) }

\* settings.js_path = value: a declared path field
SetPath ==
    \E value \in PathValues :
        /\ settings' = DynamicDataclass_setattr(settings, "js_path", value)
        /\ ret' = Done("settings_setattr", "js_path", NoneV)
        /\ UNCHANGED <<disk, rec, svc, copied>>

\* settings.theme = value: a name that is no declared field
SetDynamic ==
    \E value \in DynamicValues :
        /\ settings' = DynamicDataclass_setattr(settings, "theme", value)
        /\ ret' = Done("settings_setattr", "theme", NoneV)
        /\ UNCHANGED <<disk, rec, svc, copied>>

\* dict_to_dataclass(dataclass_to_dict(settings), Settings)
RoundTrip ==
    /\ ret' = Done("round_trip", NoneV,
                   dict_to_dataclass(dataclass_to_dict(settings), "Settings"))
    /\ UNCHANGED <<settings, disk, rec, svc, copied>>

NextSerializer ==
    \/ SetPath
    \/ AddService
    \/ RemoveService
    \/ SetCategory
    \/ SetName
    \/ SetDynamic
    \/ RoundTrip

\* The Settings tree under its mutators, and the in-memory round trip.
Spec == Init /\ [][NextSerializer]_vars

\* YAMLConfigHandler.save_settings(path, settings)
Save ==
    /\ disk' = save_settings(settings)
    /\ ret' = Done("save_settings", NoneV, NoneV)
    /\ UNCHANGED <<settings, rec, svc, copied>>

\* YAMLConfigHandler.load_settings(path, Settings); ret.arg tells whether a
\* document existed when it was called.
Load ==
    \E r \in {load_settings(disk, "Settings")} :
        /\ disk' = r.disk
        /\ ret' = Done("load_settings", Kind(disk), r.val)
        /\ UNCHANGED <<settings, rec, svc, copied>>

\* The document is deleted outside the program.
DeleteFile ==
    /\ disk # NoFile
    /\ disk' = NoFile
    /\ ret' = Done("unlink", NoneV, NoneV)
    /\ UNCHANGED <<settings, rec, svc, copied>>

NextPersistence ==
    \/ SetPath
    \/ AddService
    \/ RemoveService
    \/ Save
    \/ Load
    \/ DeleteFile

\* The Settings tree and the document on disk under save and load.
SpecPersistence == Init /\ [][NextPersistence]_vars

----------------------------------------------------------------------------
(* Claims about the serializer and the persistence gateway *)

\* C1: for every tree T reached by valid operations,
\* dict_to_dataclass(dataclass_to_dict(T), Settings) is structurally equal to T.
C1_RoundTrip == ret.op = "round_trip" => ret.val = settings

HasPath(tree) == \E f \in PathFields : Val(tree)[f] # NoneV
HasCustomService(tree) ==
    /\ "Foo" \in DOMAIN Val(ApiBasedOf(tree))
    /\ DOMAIN Val(Val(Val(ApiBasedOf(tree))["Foo"])["_extra_fields"]) # {}
SelectorPopulated(tree) ==
    /\ Category(tree) = Str("api_based")
    /\ KeyOf(SelectedName(tree)) \in DOMAIN Val(ApiBasedOf(tree))

\* C2: for every tree T with a non-null path field, a service added with an
\* extra field and a selector set to an existing service, save_settings
\* immediately followed by load_settings returns a tree equal to T.
C2_SaveThenLoad ==
    [][(/\ ret.op = "save_settings"
        /\ ret'.op = "load_settings"
        /\ HasPath(settings)
        /\ HasCustomService(settings)
        /\ SelectorPopulated(settings)) => ret'.val = settings]_vars

\* C3: load_settings where no document exists leaves a document on disk and
\* returns a tree whose api_based holds exactly the built-in services, each
\* with a null key.
C3_DefaultBootstrap ==
    (ret.op = "load_settings" /\ ret.arg = "nofile") =>
        /\ Kind(disk) = "file"
        /\ Kind(ret.val) = "Settings"
        /\ DOMAIN Val(ApiBasedOf(ret.val)) = {"DeepL", "DeepSeek"}
        /\ \A n \in DOMAIN Val(ApiBasedOf(ret.val)) :
              /\ Kind(Val(ApiBasedOf(ret.val))[n]) = "TS"
              /\ Val(Val(ApiBasedOf(ret.val))[n])["key"] = NoneV

\* C3 witness: the document was missing (deleted after a save of a tree that
\* had another service) and load_settings recreated it.
C3_Witness ==
    /\ ret.op = "load_settings"
    /\ ret.arg = "nofile"
    /\ Kind(disk) = "file"
    /\ "Foo" \in DOMAIN Val(ApiBasedOf(settings))
    /\ DOMAIN Val(ApiBasedOf(ret.val)) = {"DeepL", "DeepSeek"}

----------------------------------------------------------------------------
(* Construction of service descriptors *)

\* The values the callers of the model pass for the declared fields.
Given ==
    "service_name" :> Str("Svc") @@ "key" :> Str("k")
    @@ "request_form" :> Str("json") @@ "base_url" :> Str("https://x")
    @@ "model" :> Str("m") @@ "region" :> Str("eu")
    @@ "_extra_fields" :> Dict("model" :> Str("m"))

ClientTypes == {Str("rest"), Str("openai")}

ExtraFields ==
    { Dict(EmptyMap), Dict("model" :> Str("m")), Dict("region" :> Str("eu")),
      Dict("key" :> Str("other") @@ "model" :> Str("m")) }

\* Keyword arguments of TranslatorService(...): any subset of the declared
\* parameters.
DirectArgs ==
    { [f \in P |-> IF f = "client_type" THEN ct
                   ELSE IF f = "_extra_fields" THEN ex
                   ELSE Given[f]] :
        P \in SUBSET TSFields, ct \in ClientTypes, ex \in ExtraFields }

\* Mappings handed to from_dict: any subset of the required fields and of
\* three other keys.
DictArgs ==
    { [f \in P |-> IF f = "client_type" THEN ct ELSE Given[f]] :
        P \in SUBSET (REQUIRED_FIELDS \cup {"model", "region", "_extra_fields"}),
        ct \in ClientTypes }

\* svc = TranslatorService(**init_args)
NewService ==
    \E init_args \in DirectArgs :
        /\ svc' = TranslatorService_init(init_args)
        /\ ret' = Done("TranslatorService", Dict(init_args), NoneV)
        /\ UNCHANGED <<settings, disk, rec, copied>>

\* svc = TranslatorService.from_dict(data)
ServiceFromDict ==
    \E data \in DictArgs :
        /\ svc' = TranslatorService_from_dict(data)
        /\ ret' = Done("from_dict", Dict(data), NoneV)
        /\ UNCHANGED <<settings, disk, rec, copied>>

\* svc.to_dict()
ServiceToDict ==
    /\ Kind(svc) = "TS"
    /\ ret' = Done("to_dict", svc, Dict(TranslatorService_to_dict(svc)))
    /\ UNCHANGED <<settings, disk, rec, svc, copied>>

\* svc = TranslatorService.from_dict(data); encoded = svc.to_dict();
\* decoded = TranslatorService.from_dict(encoded): ret.val is the error
\* from_dict raised, or the list [encoded, decoded].
DescriptorRoundTrip ==
    \E data \in DictArgs :
        \E s \in {TranslatorService_from_dict(data)} :
            /\ svc' = s
            /\ ret' = Done("from_dict_to_dict", Dict(data),
                            IF IsErr(s) THEN s
                            ELSE List(<<Dict(TranslatorService_to_dict(s)),
                                        TranslatorService_from_dict(TranslatorService_to_dict(s))>>))
            /\ UNCHANGED <<settings, disk, rec, copied>>

NextService ==
    \/ NewService
    \/ ServiceFromDict
    \/ ServiceToDict
    \/ DescriptorRoundTrip
    \/ AddService

\* Service descriptors built directly, from a mapping, and through add_service.
SpecService == Init /\ [][NextService]_vars

\* The arguments of the last call, its client_type and the names of the
\* extra fields it carries.
Args == Val(ret.arg)
ClientType == Get(Args, "client_type")
Extras ==
    IF ret.op = "TranslatorService"
    THEN IF "_extra_fields" \in DOMAIN Args THEN DOMAIN Val(Args["_extra_fields"]) ELSE {}
    ELSE DOMAIN Args \ REQUIRED_FIELDS

\* C4: constructing a TranslatorService while omitting one of the five
\* required fields fails with ValueError and produces no descriptor.
C4_RequiredFields ==
    (/\ ret.op \in {"TranslatorService", "from_dict"}
     /\ REQUIRED_FIELDS \ DOMAIN Args # {}) => svc = Err("ValueError")

\* C5: a construction (direct, from_dict or add_service) with client_type
\* 'openai' and no 'model' among the extra fields fails with ValueError; one
\* with all five required fields and another client_type succeeds.
C5_KindValidation ==
    /\ ret.op \in {"TranslatorService", "from_dict"} =>
        /\ (ClientType = Str("openai") /\ "model" \notin Extras) => svc = Err("ValueError")
        /\ (REQUIRED_FIELDS \subseteq DOMAIN Args /\ ClientType # Str("openai")) =>
              Kind(svc) = "TS"
    /\ ret.op = "add_service" =>
        /\ (ClientType = Str("openai") /\ "model" \notin Extras) =>
              /\ ret.val = Err("ValueError")
              /\ Val(Args["service_name"]) \notin DOMAIN Val(ApiBasedOf(settings))
        /\ (REQUIRED_FIELDS \subseteq DOMAIN Args /\ ClientType # Str("openai")) =>
              /\ ret.val = NoneV
              /\ Val(Args["service_name"]) \in DOMAIN Val(ApiBasedOf(settings))
              /\ Kind(Val(ApiBasedOf(settings))[Val(Args["service_name"])]) = "TS"

\* C5 witness: from_dict refused an 'openai' mapping that has every required
\* field and no model.
C5_Witness ==
    /\ ret.op = "from_dict"
    /\ REQUIRED_FIELDS \subseteq DOMAIN Args
    /\ ClientType = Str("openai")
    /\ "model" \notin Extras
    /\ svc = Err("ValueError")

\* C12: to_dict returns the five required fields merged with the extra
\* fields, and a key that is both a required field and an extra field carries
\* the required field's value.
C12_RequiredPrecedence ==
    ret.op = "to_dict" =>
        LET self == Val(ret.arg)
            extra == Val(self["_extra_fields"])
            result == Val(ret.val)
        IN  /\ DOMAIN result = REQUIRED_FIELDS \cup DOMAIN extra
            /\ \A f \in REQUIRED_FIELDS : result[f] = self[f]
            /\ \A x \in DOMAIN extra \ REQUIRED_FIELDS : result[x] = extra[x]

----------------------------------------------------------------------------
(* DynamicDict under its mutators *)

Leaf == Num("1")
Inner == Dict("b" :> Leaf)
Tagged(data) == Dict("__type__" :> Str("TranslatorService") @@ "value" :> Dict(data))

\* The values stored: a scalar, a list, dicts nested in dicts and in lists,
\* and dicts that carry the TranslatorService tag (DeepL has dict-valued extra
\* fields, BarData is refused by the descriptor's validation).
StoredValues ==
    { Leaf,
      List(<<Inner>>),
      Dict("a" :> Dict("b" :> Inner)),
      Dict("l" :> List(<<List(<<Inner>>), Leaf>>)),
      Dict("s" :> Tagged(DeepL)),
      Tagged(DeepL),
      Dict("s" :> Tagged(BarData)) }

\* The values update is given.
UpdateValues ==
    { List(<<Inner>>),
      Dict("l" :> List(<<List(<<Inner>>), Leaf>>)),
      Dict("s" :> Tagged(DeepL)),
      Dict("s" :> Tagged(BarData)) }

Keys == {"x", "y"}
KeyOrders == {<<"x">>, <<"x", "y">>, <<"y", "x">>}
Range(seq) == {seq[i] : i \in DOMAIN seq}

\* rec = DynamicDict(data)
NewDict ==
    \E data \in {v \in StoredValues : Kind(v) = "dict"} :
        \E new \in {DynamicDict_init(Val(data))} :
            /\ rec' = Kept(rec, new)
            /\ ret' = Done("DynamicDict", data, Outcome(new))
            /\ UNCHANGED <<settings, disk, svc, copied>>

\* rec.<name> = value
SetAttr ==
    \E name \in Keys, value \in StoredValues :
        \E new \in {DynamicDict_setattr(rec, name, value)} :
            /\ rec' = Kept(rec, new)
            /\ ret' = Done("setattr", Dict(name :> value), Outcome(new))
            /\ UNCHANGED <<settings, disk, svc, copied>>

\* rec[key] = value
SetItem ==
    \E key \in Keys, value \in StoredValues :
        \E new \in {DynamicDict_setitem(rec, key, value)} :
            /\ rec' = Kept(rec, new)
            /\ ret' = Done("setitem", Dict(key :> value), Outcome(new))
            /\ UNCHANGED <<settings, disk, svc, copied>>

\* rec.update(other)
UpdateDict ==
    \E keys \in KeyOrders :
        \E other \in [Range(keys) -> UpdateValues] :
            \E r \in {DynamicDict_update(rec, other, keys)} :
                /\ rec' = r.self
                /\ ret' = Done("update", Dict(other), r.raised)
                /\ UNCHANGED <<settings, disk, svc, copied>>

\* rec.setdefault(key, default); ret.arg is what the call wrote
SetDefault ==
    \E key \in Keys, default \in StoredValues :
        \E new \in {DynamicDict_setdefault(rec, key, default)} :
            /\ rec' = Kept(rec, new)
            /\ ret' = Done("setdefault",
                           Dict(IF key \in DOMAIN Val(rec) THEN EmptyMap ELSE key :> default),
                           Outcome(new))
            /\ UNCHANGED <<settings, disk, svc, copied>>

NextDict ==
    \/ NewDict
    \/ SetAttr
    \/ SetItem
    \/ UpdateDict
    \/ SetDefault

\* One DynamicDict under construction and its four storing mutators.
SpecDict == Init /\ [][NextDict]_vars

Mutators == {"DynamicDict", "setattr", "setitem", "update", "setdefault"}

\* The keys under which the last call stored a dict value v; construction
\* stores the dict it is given as the whole record.
StoredDicts ==
    IF ret.op \in Mutators /\ ret.val = NoneV
    THEN {k \in DOMAIN Val(ret.arg) : ret.op = "DynamicDict" \/ Kind(Val(ret.arg)[k]) = "dict"}
    ELSE {}

\* x holds no plain dict at any depth, lists and descriptors included.
RECURSIVE NoPlainDict(_)
NoPlainDict(x) ==
    CASE Kind(x) = "dict" -> FALSE
      [] Kind(x) \in {"DD", "API"} -> \A k \in DOMAIN Val(x) : NoPlainDict(Val(x)[k])
      [] Kind(x) = "list" -> \A i \in DOMAIN Val(x) : NoPlainDict(Val(x)[i])
      [] Kind(x) = "TS" ->
            \A k \in DOMAIN TranslatorService_to_dict(x) :
                NoPlainDict(TranslatorService_to_dict(x)[k])
      [] OTHER -> TRUE

\* x holds no plain dict at any depth outside the TranslatorService
\* descriptors in it.
RECURSIVE NoPlainDictOutsideService(_)
NoPlainDictOutsideService(x) ==
    CASE Kind(x) = "dict" -> FALSE
      [] Kind(x) \in {"DD", "API"} ->
            \A k \in DOMAIN Val(x) : NoPlainDictOutsideService(Val(x)[k])
      [] Kind(x) = "list" -> \A i \in DOMAIN Val(x) : NoPlainDictOutsideService(Val(x)[i])
      [] OTHER -> TRUE

C15_UniformConversion ==
    (ret.op \in {"setattr", "setitem", "update", "setdefault"} /\ ret.val = NoneV) =>
        \A k \in DOMAIN Val(ret.arg) :
            LET constructed == DynamicDict_init(k :> Val(ret.arg)[k])
            IN  /\ Kind(constructed) = "DD"
                /\ Val(rec)[k] = Val(constructed)[k]


----------------------------------------------------------------------------
(* load_settings on documents written outside the program *)

DefaultDocument == yaml_dump(get_default_settings)
DefaultTree == dict_to_dataclass(get_default_settings, "Settings")

\* Documents that load as empty content: an empty file, "{}", "[]", '""',
\* "null" and "0".
EmptyDocuments ==
    { {}, yaml_dump(Dict(EmptyMap)), yaml_dump(List(<<>>)), yaml_dump(Str("")),
      yaml_dump(NoneV), yaml_dump(Num("0")) }

\* Text that is no YAML.
CorruptDocuments == { {<<<<>>, SyntaxError>>} }

\* Documents whose root is a sequence or a scalar.
RootNotMapping == { yaml_dump(List(<<Str("a")>>)), yaml_dump(Str("text")) }

\* Mappings dict_to_dataclass fails on: an 'openai' service without 'model'
\* under api_based, and a key under now_using that is neither category nor name.
UndecodableDocuments ==
    { yaml_dump(Dict("translator" :> Dict("api_based" :> Dict("Bar" :> Tagged(BarData))))),
      yaml_dump(Dict("translator" :> Dict("now_using" :>
          Dict("category" :> Str("api_based") @@ "name" :> Str("DeepL")
               @@ "base_url" :> Str("X"))))) }

\* Well-formed documents written by hand.
ValidDocuments ==
    { yaml_dump(Dict("js_path" :> Dict("__type__" :> Str("Path") @@ "value" :> Str("/opt/js")))),
      yaml_dump(Dict("translator" :> Dict("now_using" :>
          Dict("category" :> Str("local_llm") @@ "name" :> Str("Foo"))))) }

Documents ==
    EmptyDocuments \cup CorruptDocuments \cup RootNotMapping
    \cup UndecodableDocuments \cup ValidDocuments

\* The document is written, or made unreadable, outside the program.
EditFile ==
    \E file \in {File(doc) : doc \in Documents} \cup {Unreadable} :
        /\ disk' = file
        /\ ret' = Done("edit", NoneV, NoneV)
        /\ UNCHANGED <<settings, rec, svc, copied>>

\* YAMLConfigHandler.load_settings(path, Settings); ret.arg is the file it found.
LoadDocument ==
    \E r \in {load_settings(disk, "Settings")} :
        /\ disk' = r.disk
        /\ ret' = Done("load_settings", disk, r.val)
        /\ UNCHANGED <<settings, rec, svc, copied>>

NextLoad ==
    \/ EditFile
    \/ LoadDocument
    \/ Save
    \/ DeleteFile
    \/ AddService
    \/ RemoveService

\* load_settings on whatever document it may find.
SpecLoad == Init /\ [][NextLoad]_vars

FailingFiles ==
    {Unreadable} \cup {File(doc) : doc \in CorruptDocuments \cup RootNotMapping
                                             \cup UndecodableDocuments}

\* C11: every load_settings either returns a Settings tree or raises
\* ValueError, and it raises ValueError on an unreadable file, an unparsable
\* document, a document whose root is no mapping and a mapping that
\* dict_to_dataclass fails on.
C11_SingleErrorType ==
    ret.op = "load_settings" =>
        /\ Kind(ret.val) \in {"Settings", "err"}
        /\ IsErr(ret.val) => ret.val = Err("ValueError")
        /\ ret.arg \in FailingFiles => ret.val = Err("ValueError")

\* C11 witness: each kind of failure has been loaded.
C11_Witness ==
    /\ ret.op = "load_settings"
    /\ ret.arg \in {File(doc) : doc \in UndecodableDocuments}
    /\ ret.val = Err("ValueError")

\* C17: load_settings on a document that loads as empty content returns the
\* tree load_settings returns where no document exists, and leaves on disk
\* the document that call leaves.
C17_EmptyEqualsMissing ==
    (ret.op = "load_settings" /\ ret.arg \in {File(doc) : doc \in EmptyDocuments}) =>
        /\ ret.val = load_settings(NoFile, "Settings").val
        /\ disk = load_settings(NoFile, "Settings").disk

\* C17 witness: the document "{}" was loaded; the default tree came back and
\* the default document is on disk.
C17_Witness ==
    /\ ret.op = "load_settings"
    /\ ret.arg = File(yaml_dump(Dict(EmptyMap)))
    /\ ret.val = DefaultTree
    /\ disk = File(DefaultDocument)

UnusableFiles == {Unreadable} \cup {File(doc) : doc \in CorruptDocuments}

\* C18 as stated: load_settings on a document that cannot be read or parsed
\* returns the default settings tree.
C18_Original ==
    (ret.op = "load_settings" /\ ret.arg \in UnusableFiles) => ret.val = DefaultTree

\* C18 amended: load_settings on a document that cannot be read or parsed
\* raises ValueError, returns no tree and leaves the document as it found it.
C18_CorruptDocumentRaises ==
    (ret.op = "load_settings" /\ ret.arg \in UnusableFiles) =>
        /\ ret.val = Err("ValueError")
        /\ disk = ret.arg

\* C18 witness: an unparsable document was loaded, the call raised and the
\* document is still the unparsable one.
C18_Witness ==
    /\ ret.op = "load_settings"
    /\ ret.arg = File({<<<<>>, SyntaxError>>})
    /\ ret.val = Err("ValueError")
    /\ disk = ret.arg


----------------------------------------------------------------------------
(* The back-reference of the selector *)

Parent(tree) == Val(NowUsingOf(tree))["_parent_translator"]

\* settings.translator = Translator(now_using=NowUsing(**init_args)) with
\* _service_category and _service_name given, either of them possibly None
NewTranslator ==
    \E category \in {Str("local_llm"), NoneV}, name \in SelectorNames :
        \E init_args \in {"_service_category" :> category @@ "_service_name" :> name} :
            /\ settings' = DynamicDataclass_setattr(settings, "translator",
                                Translator_init("now_using" :> NowUsing_init(init_args)))
            /\ ret' = Done("new_translator", Dict(init_args), NoneV)
            /\ UNCHANGED <<disk, rec, svc, copied>>

\* settings.translator.now_using = other.now_using: the selector of the
\* second Translator put in place by attribute assignment
AdoptNowUsing ==
    /\ settings' = SetField(settings, "translator",
                        DynamicDataclass_setattr(TranslatorOf(settings), "now_using",
                            SetField(Val(OtherTranslator)["now_using"],
                                     "_parent_translator", Ref("other"))))
    /\ ret' = Done("translator_setattr", "now_using", NoneV)
    /\ UNCHANGED <<disk, rec, svc, copied>>

NextWiring ==
    \/ NewTranslator
    \/ AddService
    \/ RemoveService
    \/ SetCategory
    \/ SetName
    \/ ReplaceNowUsing
    \/ AdoptNowUsing
    \/ ReadNowUsing
    \/ RoundTrip
    \/ Load

\* Translators as they are constructed, decoded and mutated, and the
\* selector they hold.
SpecWiring == Init /\ [][NextWiring]_vars

\* The part of C14 about construction and the listed mutators.
WiredByConstruction ==
    /\ ret.op = "init" => Parent(settings) = Ref("self")
    /\ ret'.op = "new_translator" => Parent(settings') = Ref("self")
    /\ (ret'.op \in {"round_trip", "load_settings"} /\ ~IsErr(ret'.val)) =>
           Parent(ret'.val) = Ref("self")
    /\ (/\ ret'.op \in {"add_service", "remove_service", "now_using_setattr"}
        /\ Parent(settings) = Ref("self")) => Parent(settings') = Ref("self")

\* C14: the selector of every Translator that was constructed (directly, by
\* default inside Settings, by dict_to_dataclass or load_settings) refers
\* back to that Translator, add_service, remove_service and assignments to
\* category and name keep it so, and reading through a selector that was put
\* in place by attribute assignment fails, its parent reference being unset.
C14_BackReference ==
    [][/\ WiredByConstruction
       /\ (ret'.op = "now_using_getattr" /\ Parent(settings) # Ref("self")) =>
              /\ ret'.val = Err("ValueError")
              /\ ParentUnset(settings)]_vars

\* C16: a NowUsing constructed with a null category or a null name holds
\* 'api_based' or 'DeepSeek' in its place, and in no reachable state,
\* assignments to now_using.category and now_using.name included, is the
\* category or the name null.
C16_NeverNull ==
    /\ ret.op = "new_translator" =>
          /\ Category(settings) =
                IF Val(ret.arg)["_service_category"] = NoneV THEN Str("api_based")
                ELSE Val(ret.arg)["_service_category"]
          /\ SelectedName(settings) =
                IF Val(ret.arg)["_service_name"] = NoneV THEN Str("DeepSeek")
                ELSE Val(ret.arg)["_service_name"]
    /\ Category(settings) # NoneV
    /\ SelectedName(settings) # NoneV

\* The part of C16 about construction.
DefaultsAtConstruction ==
    ret.op = "new_translator" =>
        /\ Category(settings) # NoneV
        /\ SelectedName(settings) # NoneV


----------------------------------------------------------------------------
(* The encoder on trees that carry dynamic fields *)

\* Values stored in undeclared fields: a relative and an absolute Path and a
\* service descriptor.
EncodedValues == {PathV("scripts"), PathV("/opt/js"), TranslatorService_from_dict(FooData)}

\* settings.cache = value
SetSettingsDynamic ==
    \E value \in EncodedValues \cup {Str("dark")} :
        /\ settings' = DynamicDataclass_setattr(settings, "cache", value)
        /\ ret' = Done("settings_setattr", "cache", NoneV)
        /\ UNCHANGED <<disk, rec, svc, copied>>

\* settings.translator.fallback = value
SetTranslatorDynamic ==
    \E value \in EncodedValues :
        /\ settings' = SetField(settings, "translator",
                            DynamicDataclass_setattr(TranslatorOf(settings), "fallback", value))
        /\ ret' = Done("translator_setattr", "fallback", NoneV)
        /\ UNCHANGED <<disk, rec, svc, copied>>

\* dataclass_to_dict(settings)
Serialize ==
    /\ ret' = Done("dataclass_to_dict", NoneV, dataclass_to_dict(settings))
    /\ UNCHANGED <<settings, disk, rec, svc, copied>>

\* settings.translator.now_using.to_dict()
SelectorToDict ==
    /\ ret' = Done("now_using_to_dict", NoneV, NowUsing_to_dict(NowUsingOf(settings)))
    /\ UNCHANGED <<settings, disk, rec, svc, copied>>

NextEncode ==
    \/ SetSettingsDynamic
    \/ SetTranslatorDynamic
    \/ SetCategory
    \/ SetName
    \/ SetOtherAttr
    \/ ReplaceNowUsing
    \/ Serialize
    \/ SelectorToDict
    \/ RoundTrip

\* Trees with dynamic fields and the mappings the encoder makes of them.
SpecEncode == Init /\ [][NextEncode]_vars

\* The keys of every mapping nested in x.
RECURSIVE KeysIn(_)
KeysIn(x) ==
    IF Kind(x) \in {"dict", "DD"}
    THEN DOMAIN Val(x) \cup UNION {KeysIn(Val(x)[k]) : k \in DOMAIN Val(x)}
    ELSE IF Kind(x) = "list" THEN UNION {KeysIn(Val(x)[i]) : i \in DOMAIN Val(x)}
    ELSE {}

\* C13: NowUsing.to_dict returns exactly the keys category and name with the
\* selector's two values; the mapping dataclass_to_dict makes of a Settings
\* tree has no key _parent_translator or _dynamic_fields at any depth, and
\* under translator.now_using exactly that two-key mapping.
C13_SelectorSerialisation ==
    /\ ret.op = "now_using_to_dict" =>
          ret.val = Dict("category" :> Category(settings) @@ "name" :> SelectedName(settings))
    /\ ret.op = "dataclass_to_dict" =>
          /\ Kind(ret.val) = "dict"
          /\ KeysIn(ret.val) \cap {"_parent_translator", "_dynamic_fields"} = {}
          /\ Val(Val(ret.val)["translator"])["now_using"] =
                Dict("category" :> Category(settings) @@ "name" :> SelectedName(settings))

\* C13 witness: a selector whose _dynamic_fields hold a cached base_url and
\* whose back-reference is set was encoded inside its tree.
C13_Witness ==
    /\ ret.op = "dataclass_to_dict"
    /\ Parent(settings) = Ref("self")
    /\ DOMAIN Val(Val(NowUsingOf(settings))["_dynamic_fields"]) = {"base_url"}
    /\ DOMAIN Val(Val(Val(ret.val)["translator"])["now_using"]) = {"category", "name"}

\* The encoding dataclass_to_dict emits for value held in a declared field.
AsDeclared(value) ==
    Val(dataclass_to_dict(DynamicDataclass_setattr(Settings_init(EmptyMap), "js_path", value)))["js_path"]

DynamicOf(node) == Val(Val(node)["_dynamic_fields"])

\* C20: dataclass_to_dict emits for a value in a dynamic field of the
\* Settings or the Translator node the encoding it emits for that value in a
\* declared field (tagged mappings for a TranslatorService and for a Path),
\* and dict_to_dataclass restores the value as a dynamic field of that node.
C20_DynamicFieldEncoding ==
    /\ ret.op = "dataclass_to_dict" =>
          /\ \A k \in DOMAIN DynamicOf(settings) :
                Val(ret.val)[k] = AsDeclared(DynamicOf(settings)[k])
          /\ \A k \in DOMAIN DynamicOf(TranslatorOf(settings)) :
                Val(Val(ret.val)["translator"])[k] = AsDeclared(DynamicOf(TranslatorOf(settings))[k])
    /\ ret.op = "round_trip" =>
          /\ Kind(ret.val) = "Settings"
          /\ DynamicOf(ret.val) = DynamicOf(settings)
          /\ DynamicOf(TranslatorOf(ret.val)) = DynamicOf(TranslatorOf(settings))


----------------------------------------------------------------------------
(* Paths in the declared path fields *)

\* settings.<field> = value for a declared path field
SetPathField ==
    \E field \in PathFields, value \in PathValues :
        /\ settings' = DynamicDataclass_setattr(settings, field, value)
        /\ ret' = Done("settings_setattr", field, NoneV)
        /\ UNCHANGED <<disk, rec, svc, copied>>

NextPath ==
    \/ SetPathField
    \/ Serialize
    \/ RoundTrip

\* The three declared path fields through the encoder and the decoder.
SpecPath == Init /\ [][NextPath]_vars

\* C21: a Path in a declared path field is encoded as the mapping tagged
\* Path whose value is the absolute forward-slash form of the path, and
\* decoding the encoded tree gives in every path field a Path equal to the
\* source value, relative or absolute.
C21_PathRoundTrip ==
    /\ ret.op = "dataclass_to_dict" =>
          \A f \in PathFields :
              Kind(Val(settings)[f]) = "path" =>
                  Val(ret.val)[f] = Dict("__type__" :> Str("Path")
                                         @@ "value" :> Str(AbsolutePosix(Val(Val(settings)[f]))))
    /\ ret.op = "round_trip" =>
          /\ Kind(ret.val) = "Settings"
          /\ \A f \in PathFields : Val(ret.val)[f] = Val(settings)[f]

\* The part of C21 that holds: absolute paths and null fields come back as
\* they were, a relative path comes back as the absolute path it denotes.
PathComesBackAbsolute ==
    ret.op = "round_trip" =>
        \A f \in PathFields :
            Val(ret.val)[f] = IF Kind(Val(settings)[f]) = "path"
                              THEN PathV(AbsolutePosix(Val(Val(settings)[f])))
                              ELSE Val(settings)[f]


----------------------------------------------------------------------------
(* Declared and dynamic fields of Settings, Translator and LLMSettings *)

RecordNodes == {"Settings", "Translator", "LLMSettings"}

\* The node of each class in the tree: settings, settings.translator and
\* settings.translator.local_llm.
NodeOf(tree, node) ==
    CASE node = "Settings" -> tree
      [] node = "Translator" -> TranslatorOf(tree)
      [] node = "LLMSettings" -> Val(TranslatorOf(tree))["local_llm"]

WithNode(tree, node, new) ==
    CASE node = "Settings" -> new
      [] node = "Translator" -> SetField(tree, "translator", new)
      [] node = "LLMSettings" -> WithTranslatorField(tree, "local_llm", new)

\* Per class: one declared field that is assigned, one undeclared name that
\* is assigned, and a name that is never assigned.
AssignedNames(node) ==
    CASE node = "Settings" -> {"js_path", "theme"}
      [] node = "Translator" -> {"local_llm", "fallback"}
      [] node = "LLMSettings" -> {"models", "extra"}

ReadNames(node) == AssignedNames(node) \cup {"nothing"}

\* A scalar, a nested dict, and a dict DynamicDict refuses to wrap.
RecordValues ==
    { Str("dark"),
      Dict("font" :> Dict("size" :> Num("12"))),
      Dict("s" :> Tagged(BarData)) }

\* The node is there: settings.translator.local_llm may have been replaced
\* by a value that is no LLMSettings.
Present(tree, node) == Kind(NodeOf(tree, node)) = node

\* <node>.<name> = value
AssignRecord ==
    \E node \in RecordNodes :
        /\ Present(settings, node)
        /\ \E name \in AssignedNames(node), value \in RecordValues \cup {LLMSettings_init(EmptyMap)} :
              \E new \in {DynamicDataclass_setattr(NodeOf(settings, node), name, value)} :
                  /\ value = LLMSettings_init(EmptyMap) => name = "local_llm"
                  /\ settings' = WithNode(settings, node, Kept(NodeOf(settings, node), new))
                  /\ ret' = Done("record_setattr",
                                  Dict("node" :> Str(node) @@ "name" :> Str(name) @@ "value" :> value),
                                  Outcome(new))
                  /\ UNCHANGED <<disk, rec, svc, copied>>

\* <node>.<name>
ReadRecord ==
    \E node \in RecordNodes :
        /\ Present(settings, node)
        /\ \E name \in ReadNames(node) :
              /\ ret' = Done("record_getattr", Dict("node" :> Str(node) @@ "name" :> Str(name)),
                              DynamicDataclass_getattr(NodeOf(settings, node), name))
              /\ UNCHANGED <<settings, disk, rec, svc, copied>>

NextRecord ==
    \/ AssignRecord
    \/ ReadRecord

\* The three extensible records under attribute assignment and attribute read.
SpecRecord == Init /\ [][NextRecord]_vars

\* The declared fields of a node other than the side mapping itself.
DeclaredOf(node) == Fields(node) \ {"_dynamic_fields"}

\* C22: an assignment of a declared name changes that declared field only,
\* an assignment of any other name changes the side mapping only, under that
\* name; a dict value is stored as a DynamicDict; a read returns the value
\* last stored under the name, and AttributeError for a name that is
\* neither declared nor in the side mapping.
C22_DeclaredDynamicRouting ==
    [][/\ ret'.op = "record_setattr" =>
            LET node == Val(Val(ret'.arg)["node"])
                name == Val(Val(ret'.arg)["name"])
                value == Val(ret'.arg)["value"]
                old == NodeOf(settings, node)
                new == NodeOf(settings', node)
                stored == DynamicDataclass_getattr(new, name)
            IN  IF IsErr(ret'.val) THEN settings' = settings
                ELSE /\ settings' = WithNode(settings, node, new)
                     /\ \A f \in DeclaredOf(node) \ {name} : Val(new)[f] = Val(old)[f]
                     /\ \A k \in DOMAIN DynamicOf(old) \ {name} :
                            /\ k \in DOMAIN DynamicOf(new)
                            /\ DynamicOf(new)[k] = DynamicOf(old)[k]
                     /\ IF name \in DeclaredOf(node)
                        THEN DynamicOf(new) = DynamicOf(old)
                        ELSE DOMAIN DynamicOf(new) = DOMAIN DynamicOf(old) \cup {name}
                     /\ IF Kind(value) = "dict"
                        THEN /\ Kind(stored) = "DD"
                             /\ DynamicDict_to_dict(stored) = value
                        ELSE stored = value
       /\ ret'.op = "record_getattr" =>
            LET node == Val(Val(ret'.arg)["node"])
                name == Val(Val(ret'.arg)["name"])
                self == NodeOf(settings, node)
            IN  /\ settings' = settings
                /\ IF name \in DeclaredOf(node) THEN ret'.val = Val(self)[name]
                   ELSE IF name \in DOMAIN DynamicOf(self) THEN ret'.val = DynamicOf(self)[name]
                   ELSE ret'.val = Err("AttributeError")]_vars

\* C22 witness: settings.theme was assigned a dict after settings.js_path had
\* been; both are held as DynamicDict, one in the side mapping and one in the
\* declared field.
C22_Witness ==
    /\ ret.op = "record_setattr"
    /\ Val(ret.arg)["name"] = Str("theme")
    /\ ret.val = NoneV
    /\ Kind(Val(settings)["js_path"]) = "DD"
    /\ DOMAIN DynamicOf(settings) = {"theme"}
    /\ Kind(DynamicOf(settings)["theme"]) = "DD"


----------------------------------------------------------------------------
(* DynamicDict under reads and removals *)

\* Keys of the record: two ordinary names and the name of a method.
AccessKeys == {"x", "y", "items"}
AccessValues == {Leaf, Inner}
Defaults == {Num("7")}

Call(key) == Dict("key" :> Str(key))
CallWithDefault(key, default) == Dict("key" :> Str(key) @@ "default" :> default)

\* rec.<name> = value
StoreAttr ==
    \E name \in AccessKeys, value \in AccessValues :
        /\ rec' = DynamicDict_setattr(rec, name, value)
        /\ ret' = Done("setattr", Call(name), NoneV)
        /\ UNCHANGED <<settings, disk, svc, copied>>

\* rec[key] = value
StoreItem ==
    \E key \in AccessKeys, value \in AccessValues :
        /\ rec' = DynamicDict_setitem(rec, key, value)
        /\ ret' = Done("setitem", Call(key), NoneV)
        /\ UNCHANGED <<settings, disk, svc, copied>>

\* rec.update({key: value})
StoreUpdate ==
    \E key \in AccessKeys, value \in AccessValues :
        /\ rec' = DynamicDict_update(rec, key :> value, <<key>>).self
        /\ ret' = Done("update", Call(key), NoneV)
        /\ UNCHANGED <<settings, disk, svc, copied>>

\* rec.<name>
ReadAttr ==
    \E name \in AccessKeys :
        /\ ret' = Done("getattr", Call(name), DynamicDict_attribute(rec, name))
        /\ UNCHANGED <<settings, disk, rec, svc, copied>>

\* rec[key]
ReadItem ==
    \E key \in AccessKeys :
        /\ ret' = Done("getitem", Call(key), DynamicDict_getitem(rec, key))
        /\ UNCHANGED <<settings, disk, rec, svc, copied>>

\* del rec.<name>
DelAttr ==
    \E name \in AccessKeys :
        \E new \in {DynamicDict_delattr(rec, name)} :
            /\ rec' = Kept(rec, new)
            /\ ret' = Done("delattr", Call(name), Outcome(new))
            /\ UNCHANGED <<settings, disk, svc, copied>>

\* del rec[key]
DelItem ==
    \E key \in AccessKeys :
        \E new \in {DynamicDict_delitem(rec, key)} :
            /\ rec' = Kept(rec, new)
            /\ ret' = Done("delitem", Call(key), Outcome(new))
            /\ UNCHANGED <<settings, disk, svc, copied>>

\* rec.get(key) and rec.get(key, default)
GetKey ==
    \E key \in AccessKeys :
        \/ /\ ret' = Done("get", Call(key), DynamicDict_get(rec, key, NoneV))
           /\ UNCHANGED <<settings, disk, rec, svc, copied>>
        \/ \E default \in Defaults :
              /\ ret' = Done("get", CallWithDefault(key, default),
                              DynamicDict_get(rec, key, default))
              /\ UNCHANGED <<settings, disk, rec, svc, copied>>

\* rec.pop(key) and rec.pop(key, default)
PopKey ==
    \E key \in AccessKeys :
        \/ \E r \in {DynamicDict_pop(rec, key, NoneV)} :
              /\ rec' = r.self
              /\ ret' = Done("pop", Call(key), r.val)
              /\ UNCHANGED <<settings, disk, svc, copied>>
        \/ \E default \in Defaults :
              \E r \in {DynamicDict_pop(rec, key, default)} :
                  /\ rec' = r.self
                  /\ ret' = Done("pop", CallWithDefault(key, default), r.val)
                  /\ UNCHANGED <<settings, disk, svc, copied>>

NextAccess ==
    \/ StoreAttr
    \/ StoreItem
    \/ StoreUpdate
    \/ ReadAttr
    \/ ReadItem
    \/ DelAttr
    \/ DelItem
    \/ GetKey
    \/ PopKey

\* One DynamicDict under stores, reads and removals.
SpecAccess == Init /\ [][NextAccess]_vars

NotFound == {Err("KeyError"), Err("AttributeError")}

\* C23: an attribute read, key read, attribute delete, key delete, get(key)
\* or pop(key) of an absent key, called without a default, fails with
\* KeyError or AttributeError; with a default given, get and pop return it;
\* after a successful delete the key is not contained and the length is one
\* less.
C23_NotFoundNeverDefaulted ==
    [][ret'.op \in {"getattr", "getitem", "delattr", "delitem", "get", "pop"} =>
         LET key == Val(Val(ret'.arg)["key"])
         IN  /\ (~DynamicDict_contains(rec, key) /\ "default" \notin DOMAIN Val(ret'.arg)
                    /\ (ret'.op = "getattr" => key \notin DynamicDictMethods)) =>
                   (ret'.val \in NotFound /\ rec' = rec)
             /\ (~DynamicDict_contains(rec, key) /\ "default" \in DOMAIN Val(ret'.arg)) =>
                   (ret'.val = Val(ret'.arg)["default"] /\ rec' = rec)
             /\ (DynamicDict_contains(rec, key) /\ ret'.op \in {"delattr", "delitem"}) =>
                   /\ ~DynamicDict_contains(rec', key)
                   /\ DynamicDict_len(rec') = DynamicDict_len(rec) - 1]_vars

\* The part of C23 that holds: reads and deletes of an absent key fail, and
\* a successful delete removes exactly the key.
ReadsAndDeletesFail ==
    [][ret'.op \in {"getattr", "getitem", "delattr", "delitem"} =>
         LET key == Val(Val(ret'.arg)["key"])
         IN  /\ (~DynamicDict_contains(rec, key)
                    /\ (ret'.op = "getattr" => key \notin DynamicDictMethods)) =>
                   (ret'.val \in NotFound /\ rec' = rec)
             /\ (DynamicDict_contains(rec, key) /\ ret'.op \in {"delattr", "delitem"}) =>
                   /\ Val(rec') = Del(Val(rec), key)
                   /\ DynamicDict_len(rec') = DynamicDict_len(rec) - 1]_vars

\* C26: for every key in the record, method names included, the attribute
\* read returns what the key read returns.
C26_AttributeViewIsKeyView ==
    \A k \in DOMAIN Val(rec) : DynamicDict_attribute(rec, k) = DynamicDict_getitem(rec, k)

\* The part of C26 that holds: the two views agree on every key that is no
\* name of the class.
ViewsAgreeOffMethods ==
    \A k \in DOMAIN Val(rec) \ DynamicDictMethods :
        DynamicDict_attribute(rec, k) = DynamicDict_getitem(rec, k)


----------------------------------------------------------------------------
(* DynamicDict(d).to_dict() *)

\* Values nested in the plain mappings: scalars, dicts in dicts, dicts in
\* lists, lists in lists, and a dict tagged as TranslatorService.
NestedValues ==
    { Leaf, Str("t"), Inner, Dict("a" :> Inner), List(<<Leaf>>), List(<<Inner>>),
      List(<<List(<<Inner>>), Leaf>>), Tagged(DeepL) }

PlainMappings ==
    UNION {[K -> NestedValues] : K \in SUBSET {"a", "l"}}

\* rec = DynamicDict(d)
NewPlain ==
    \E d \in PlainMappings :
        \E new \in {DynamicDict_init(d)} :
            /\ rec' = Kept(rec, new)
            /\ ret' = Done("DynamicDict", Dict(d), Outcome(new))
            /\ UNCHANGED <<settings, disk, svc, copied>>

\* rec.to_dict(), for the record just constructed from ret.arg
ToDict ==
    /\ ret.op = "DynamicDict"
    /\ ret.val = NoneV
    /\ ret' = Done("to_dict", ret.arg, DynamicDict_to_dict(rec))
    /\ UNCHANGED <<settings, disk, rec, svc, copied>>

NextPlain ==
    \/ NewPlain
    \/ ToDict

\* Plain mappings wrapped and unwrapped again.
SpecPlain == Init /\ [][NextPlain]_vars

RECURSIVE HasTag(_)
HasTag(x) ==
    IF Kind(x) = "dict"
    THEN "__type__" \in DOMAIN Val(x) \/ \E k \in DOMAIN Val(x) : HasTag(Val(x)[k])
    ELSE IF Kind(x) = "list" THEN \E i \in DOMAIN Val(x) : HasTag(Val(x)[i])
    ELSE FALSE

RECURSIVE NoDynamicDict(_)
NoDynamicDict(x) ==
    IF Kind(x) = "DD" THEN FALSE
    ELSE IF Kind(x) = "dict" THEN \A k \in DOMAIN Val(x) : NoDynamicDict(Val(x)[k])
    ELSE IF Kind(x) = "list" THEN \A i \in DOMAIN Val(x) : NoDynamicDict(Val(x)[i])
    ELSE TRUE

\* C24: for a plain nested value d without a TranslatorService tag,
\* DynamicDict(d).to_dict() equals d and holds no DynamicDict at any depth,
\* inside lists included; a TranslatorService held by the record is emitted
\* as the mapping tagged TranslatorService with its fields.
C24_PlainMappingRoundTrip ==
    ret.op = "to_dict" =>
        /\ ~HasTag(ret.arg) => (ret.val = ret.arg /\ NoDynamicDict(ret.val))
        /\ \A k \in DOMAIN Val(rec) :
              Kind(Val(rec)[k]) = "TS" =>
                  Val(ret.val)[k] = Dict("__type__" :> Str("TranslatorService")
                                         @@ "value" :> Dict(TranslatorService_to_dict(Val(rec)[k])))

RECURSIVE HasDictInList(_, _)
HasDictInList(x, inlist) ==
    IF Kind(x) = "dict" THEN inlist \/ \E k \in DOMAIN Val(x) : HasDictInList(Val(x)[k], inlist)
    ELSE IF Kind(x) = "list" THEN \E i \in DOMAIN Val(x) : HasDictInList(Val(x)[i], TRUE)
    ELSE FALSE

\* The part of C24 that holds: the round trip is exact for every d that has
\* no dict inside a list.
RoundTripOffLists ==
    (ret.op = "to_dict" /\ ~\E k \in DOMAIN Val(ret.arg) : HasDictInList(Val(ret.arg)[k], FALSE)) =>
        (ret.val = ret.arg /\ NoDynamicDict(ret.val))

----------------------------------------------------------------------------
(* c = r.copy() *)

\* copy(): DynamicDict(self._data.copy()).  The new record has a mapping of
\* its own; __init__ passes every value through _convert_value.
DynamicDict_copy(self) == DynamicDict_init(Val(self))

\* The keys under which the copy holds the very object the original holds:
\* _convert_value builds a new object for a dict and for a list only and
\* returns every other value, a DynamicDict included, as it is.
SameObject(self) == {key \in DOMAIN Val(self) : Kind(Val(self)[key]) \notin {"dict", "list"}}

CopyKeys == {"a", "n"}
CopyValues == {Num("1"), Dict("b" :> Num("1"))}
NewValues == {Num("2"), Dict("b" :> Num("2"))}
Sides == {"r", "c"}

\* r = DynamicDict(d)
NewOriginal ==
    /\ copied.c = NoneV
    /\ \E keys \in SUBSET CopyKeys : \E d \in [keys -> CopyValues] :
        /\ rec' = DynamicDict_init(d)
        /\ ret' = Done("DynamicDict", Dict(d), NoneV)
    /\ UNCHANGED <<settings, disk, svc, copied>>

\* c = r.copy()
Copy ==
    /\ copied.c = NoneV
    /\ ret.op = "DynamicDict"
    /\ copied' = [c |-> DynamicDict_copy(rec), same |-> SameObject(rec)]
    /\ ret' = Done("copy", rec, copied'.c)
    /\ UNCHANGED <<settings, disk, rec, svc>>

Side(on) == IF on = "r" THEN rec ELSE copied.c

\* The two records after `on` became `new`; a key that was assigned or
\* deleted at top level no longer names a common object.
Became(on, new, key) ==
    /\ rec' = IF on = "r" THEN new ELSE rec
    /\ copied' = [c |-> IF on = "c" THEN new ELSE copied.c, same |-> copied.same \ {key}]

\* r[key] = value  /  c[key] = value
AssignTop ==
    /\ copied.c # NoneV
    /\ \E on \in Sides, key \in CopyKeys, value \in NewValues :
        /\ Became(on, DynamicDict_setitem(Side(on), key, value), key)
        /\ ret' = Done("setitem", Dict("on" :> Str(on) @@ "key" :> Str(key)), NoneV)
    /\ UNCHANGED <<settings, disk, svc>>

\* del r[key]  /  del c[key]
DeleteTop ==
    /\ copied.c # NoneV
    /\ \E on \in Sides : \E key \in DOMAIN Val(Side(on)) :
        /\ Became(on, DynamicDict_delitem(Side(on), key), key)
        /\ ret' = Done("delitem", Dict("on" :> Str(on) @@ "key" :> Str(key)), NoneV)
    /\ UNCHANGED <<settings, disk, svc>>

\* r.<key>.b = value  /  c.<key>.b = value: the assignment changes the object
\* held under key, and with it every record that holds that object.
AssignNested ==
    /\ copied.c # NoneV
    /\ \E on \in Sides : \E key \in DOMAIN Val(Side(on)) : \E value \in {Num("99")} :
        /\ Kind(Val(Side(on))[key]) = "DD"
        /\ \E held \in {DynamicDict_setattr(Val(Side(on))[key], "b", value)} :
            /\ rec' = IF on = "r" \/ key \in copied.same
                      THEN WithVal(rec, Put(Val(rec), key, held)) ELSE rec
            /\ copied' = [c |-> IF on = "c" \/ key \in copied.same
                                THEN WithVal(copied.c, Put(Val(copied.c), key, held))
                                ELSE copied.c,
                          same |-> copied.same]
        /\ ret' = Done("setattr", Dict("on" :> Str(on) @@ "key" :> Str(key)), NoneV)
    /\ UNCHANGED <<settings, disk, svc>>

NextCopy == NewOriginal \/ Copy \/ AssignTop \/ DeleteTop \/ AssignNested

SpecCopy == Init /\ [][NextCopy]_vars

ChangedThrough(on) ==
    /\ ret'.op \in {"setitem", "delitem", "setattr"}
    /\ Val(ret'.arg)["on"] = Str(on)

\* C25: c = r.copy() has the keys of r with equal values; after any
\* assignment, replacement or deletion made through c, at top level or inside
\* a nested mapping value, r is as it was, and the other way round.
C25_CopyIndependence ==
    [][/\ ret'.op = "copy" => copied'.c = rec'
       /\ ChangedThrough("c") => rec' = rec
       /\ ChangedThrough("r") => copied'.c = copied.c]_vars

\* What holds of the code: the copy is equal to the original, and the
\* top-level keys of the two records are independent of each other.
TopLevelIndependence ==
    [][/\ ret'.op = "copy" => copied'.c = rec'
       /\ (ChangedThrough("c") /\ ret'.op # "setattr") => rec' = rec
       /\ (ChangedThrough("r") /\ ret'.op # "setattr") => copied'.c = copied.c]_vars

\* The nested record of the copy is the nested record of the original.
NestedShared ==
    /\ ret.op = "setattr"
    /\ Val(ret.arg)["on"] = Str("c")
    /\ "n" \in copied.same
    /\ Val(Val(rec)["n"])["b"] = Num("99")

----------------------------------------------------------------------------
(* APIBased(data) and the built-in services *)

BuiltinNames == DOMAIN DEFAULT_SERVICES
SuppliedNames == BuiltinNames \cup {"Foo"}
SuppliedEntries == {Tagged(FooData), Tagged(BarData), Dict("x" :> Num("1")), Str("s")}
SuppliedData == UNION {[names -> SuppliedEntries] : names \in SUBSET SuppliedNames}

\* APIBased(data)
NewAPIBased ==
    /\ \E data \in SuppliedData :
        ret' = Done("APIBased", Dict(data), APIBased_init(data))
    /\ UNCHANGED <<settings, disk, rec, svc, copied>>

\* dict_to_dataclass(document, Settings) for a saved document whose
\* translator.api_based entry is the mapping data
DecodeAPIBased ==
    /\ \E data \in SuppliedData :
        \E document \in {Dict("translator" :> Dict("api_based" :> Dict(data)))} :
            ret' = Done("dict_to_dataclass", document, dict_to_dataclass(document, "Settings"))
    /\ UNCHANGED <<settings, disk, rec, svc, copied>>

NextBuiltins == NewAPIBased \/ DecodeAPIBased

SpecBuiltins == Init /\ [][NextBuiltins]_vars

\* The collection built from data: the built-in names are there, a supplied
\* entry stands under its name, a built-in name not supplied holds the default.
Overlaid(data, api) ==
    /\ Kind(api) = "API"
    /\ BuiltinNames \subseteq DOMAIN Val(api)
    /\ \A k \in DOMAIN data : Val(api)[k] = DynamicDict_convert_value(data[k])
    /\ \A k \in BuiltinNames \ DOMAIN data :
            Val(api)[k] = TranslatorService_from_dict(DEFAULT_SERVICES[k])

SuppliedIn(document) == Val(Val(Val(document)["translator"])["api_based"])

\* C27: every APIBased that gets constructed, the one dict_to_dataclass builds
\* for a translator.api_based mapping included, has the entries DeepL and
\* DeepSeek; an entry supplied under a built-in name replaces the built-in,
\* and a built-in name that is not supplied is filled in from the defaults.
C27_BuiltinsPresent ==
    /\ (ret.op = "APIBased" /\ ~IsErr(ret.val)) => Overlaid(Val(ret.arg), ret.val)
    /\ (ret.op = "dict_to_dataclass" /\ ~IsErr(ret.val)) =>
            Overlaid(SuppliedIn(ret.arg), ApiBasedOf(ret.val))

\* A decoded document that supplies DeepSeek and Foo and leaves DeepL out.
C27_Witness ==
    /\ ret.op = "dict_to_dataclass"
    /\ ~IsErr(ret.val)
    /\ DOMAIN SuppliedIn(ret.arg) = {"DeepSeek", "Foo"}
    /\ Val(ApiBasedOf(ret.val))["DeepSeek"] = DD("x" :> Num("1"))
    /\ Val(ApiBasedOf(ret.val))["DeepL"] = TranslatorService_from_dict(DeepL)

----------------------------------------------------------------------------
(* add_service / remove_service on the default collection *)

\* Foo again, with another address.
FooMoved == Put(FooData, "base_url", Str("Y"))

\* A descriptor under the name of a built-in service.
MyDeepL ==
    "service_name" :> Str("DeepL") @@ "key" :> Str("secret")
    @@ "request_form" :> Str("json") @@ "client_type" :> Str("rest")
    @@ "base_url" :> Str("mine")

\* A descriptor that names no service: from_dict reads data.get('service_name').
Unnamed == Del(FooData, "service_name")

\* An 'openai' service with its 'model' extra field.
BazData == Put(Put(BarData, "service_name", Str("Baz")), "model", Str("m"))

PresetData == {FooData, FooMoved, MyDeepL, Unnamed, BarData, BazData}

\* api_based.add_service(data)
AddPreset ==
    \E data \in PresetData :
        \E new \in {add_service(ApiBasedOf(settings), data)} :
            /\ settings' = WithTranslatorField(settings, "api_based",
                                               Kept(ApiBasedOf(settings), new))
            /\ ret' = Done("add_service", Dict(data), Outcome(new))
            /\ UNCHANGED <<disk, rec, svc, copied>>

NextPresets == AddPreset \/ RemoveService

SpecPresets == Init /\ [][NextPresets]_vars

Keyed(api) ==
    \A k \in DOMAIN Val(api) :
        /\ Kind(Val(api)[k]) = "TS"
        /\ KeyOf(Val(Val(api)[k])["service_name"]) = k

Added(m, name, before, after) ==
    /\ \A k \in DOMAIN before \ {name} : k \in DOMAIN after /\ after[k] = before[k]
    /\ DOMAIN after = DOMAIN before \cup {name}
    /\ Cardinality(DOMAIN after) =
            Cardinality(DOMAIN before) + (IF name \in DOMAIN before THEN 0 ELSE 1)
    /\ after[name] = TranslatorService_from_dict(m)

\* C28: from the default collection, after any add_service and remove_service
\* calls every entry stands under its own service_name; add_service leaves
\* the entries of other names as they were, adds one entry for a new name and
\* replaces the entry of an existing name without changing the size; an
\* add_service that fails validation leaves the collection unchanged.
C28_KeyedByServiceName ==
    /\ []Keyed(ApiBasedOf(settings))
    /\ [][ret'.op = "add_service" =>
            IF IsErr(ret'.val)
            THEN ApiBasedOf(settings') = ApiBasedOf(settings)
            ELSE Added(Val(ret'.arg), KeyOf(Get(Val(ret'.arg), "service_name")),
                       Val(ApiBasedOf(settings)), Val(ApiBasedOf(settings')))]_vars

\* The built-in DeepL replaced by the supplied descriptor, next to an added Foo.
C28_Witness ==
    /\ ret.op = "add_service"
    /\ ret.arg = Dict(MyDeepL)
    /\ ret.val = NoneV
    /\ DOMAIN Val(ApiBasedOf(settings)) = {"DeepL", "DeepSeek", "Foo"}
    /\ Val(Val(ApiBasedOf(settings))["DeepL"])["base_url"] = Str("mine")

----------------------------------------------------------------------------
(* Attribute assignment on a constructed TranslatorService *)

ServiceAttrs == {"client_type", "base_url", "model", "_extra_fields"}
ServiceAttrValues == {Str("openai"), Str("rest"), Dict(EmptyMap)}

\* svc.<name> = value
AssignService ==
    /\ Kind(svc) = "TS"
    /\ \E name \in ServiceAttrs, value \in ServiceAttrValues :
        /\ name = "_extra_fields" <=> Kind(value) = "dict"
        /\ svc' = TranslatorService_setattr(svc, name, value)
        /\ ret' = Done("service_setattr", Dict("name" :> Str(name) @@ "value" :> value), NoneV)
    /\ UNCHANGED <<settings, disk, rec, copied>>

NextAssign == ServiceFromDict \/ AssignService

SpecAssign == Init /\ [][NextAssign]_vars

KindRule(service) ==
    Val(service)["client_type"] = Str("openai") =>
        "model" \in DOMAIN Val(Val(service)["_extra_fields"])

\* C29: in every state of a TranslatorService reached by a successful
\* construction and any attribute assignments after it, client_type 'openai'
\* implies that 'model' is among the extra fields.
C29_KindRuleInvariant == Kind(svc) = "TS" => KindRule(svc)

\* What holds of the code: the rule holds of a descriptor as constructed.
RuleAtConstruction == (ret.op = "from_dict" /\ Kind(svc) = "TS") => KindRule(svc)

----------------------------------------------------------------------------
(* What load_settings writes *)

Decoded(file) == yaml_safe_load(Val(file))

\* The document exists and decodes to a non-empty mapping.
NonEmptyMapping(file) ==
    /\ Kind(file) = "file"
    /\ Kind(Decoded(file)) = "dict"
    /\ Val(Decoded(file)) # EmptyMap

\* The document exists and decodes to empty content.
EmptyContent(file) ==
    /\ Kind(file) = "file"
    /\ ~IsErr(Decoded(file))
    /\ Falsy(Decoded(file))

\* C30: load_settings leaves a document that decodes to a non-empty mapping
\* as it found it, whether it returns a tree or fails; it writes the document
\* only when the document is missing or empty; and a load_settings that
\* follows a load_settings of the same path returns an equal tree.
C30_WritesOnlyToBootstrap ==
    [][ret'.op = "load_settings" =>
        /\ NonEmptyMapping(disk) => disk' = disk
        /\ disk' # disk => (Kind(disk) = "nofile" \/ EmptyContent(disk))
        /\ (ret.op = "load_settings" /\ ~IsErr(ret.val)) => ret'.val = ret.val]_vars

\* The second of two loads that started from a missing document: it found
\* the default document the first one wrote, left it, and returned the tree
\* the first one returned.
C30_Witness ==
    /\ ret.op = "load_settings"
    /\ ret.arg = File(DefaultDocument)
    /\ NonEmptyMapping(ret.arg)
    /\ disk = ret.arg
    /\ ret.val = DefaultTree

====
